---- MODULE Spec2Model ----
(***************************************************************************)
(* Authentication layer of rmcp-axum: the AuthService middleware, the      *)
(* BearerAuth extractor and the JwtValidator with its JWKS cache behind a  *)
(* tokio RwLock.  Every process is one call: an HTTP request passing       *)
(* through AuthService::call, or a standalone JwtValidator::refresh_jwks.  *)
(***************************************************************************)
EXTENDS Integers, Sequences, FiniteSets, TLC

\* ------------------------------------------------------------------ bounds
NumProcs == 2
MaxRotations == 1

Procs == 1..NumProcs

\* Option<T>: None is <<>>, Some(x) is <<x>>.
NoneOpt == <<>>
Some(x) == <<x>>
IsSome(o) == Len(o) = 1
Unwrap(o) == o[1]

\* -------------------------------------------------------------------- state
VARIABLES
  jwks,             \* JwtValidatorInner.jwks: the cached key set
  lock,             \* the RwLock around it: readers, writer (0: none), FIFO waiters
  sourceVer,        \* the key set version the JWKS source serves now
  served,           \* every key set a fetch has returned so far
  call,             \* per process: the call it runs and how far it is
  resource_server,  \* AuthLayer.resource_server: Option<ResourceServerConfig>
  policy,           \* JwtValidatorBuilder: the audience and issuer options
  built,            \* JwtValidatorBuilder::build: not called, Ok, or Err
  probe,            \* the last application of a helper: arguments and result
  app,              \* the axum Router the application assembled at startup
  service           \* one AuthService and the instances of its inner service

aux == <<resource_server, policy, built, probe, app, service>>
vars == <<jwks, lock, sourceVer, served, call, resource_server, policy, built, probe, app,
          service>>

\* ------------------------------------------------------------------ strings
\* A String is the sequence of its characters.  The characters strings are
\* drawn from: a letter, the double quote and the line feed.
MaxStrLen == 1
MaxScopeLen == 3
MaxAudLen == 2
MaxPathLen == 3
MaxTextLen == 3
MaxEdits == 2
MaxTimeLen == 5
MaxCalls == 3

\* "https://r", "mcp:tools", "files:write"
UrlR == <<"h", "t", "t", "p", "s", ":", "/", "/", "r">>
ScopeTools == <<"m", "c", "p", ":", "t", "o", "o", "l", "s">>
ScopeWrite == <<"f", "i", "l", "e", "s", ":", "w", "r", "i", "t", "e">>

Strings ==
  {UrlR, ScopeTools, ScopeWrite}
    \cup UNION {[1..k -> {"a", "\"", "\n"}] : k \in 0..MaxStrLen}

\* ---------------------------------------------------------- JWKS and tokens
\* A kid the source never serves.
ForgedKid == MaxRotations + 5

\* A key the source serves in every set and DecodingKey::from_jwk refuses.
BrokenKid == ForgedKid + 1

\* The key set the JWKS source serves after v rotations: the current key and
\* the next one (overlapping rotation), and the key that cannot be used.
\* One JWK of the source is its key id, key type and key material; keys with
\* an even id are symmetric ("oct"), keys with an odd id are RSA keys.
JwksAt(v) ==
  LET JwkOf(k) ==
        [kid |-> k, kty |-> IF k % 2 = 0 THEN "oct" ELSE "RSA", key |-> k,
         usable |-> TRUE]
  IN {JwkOf(v), JwkOf(v + 1), [JwkOf(BrokenKid) EXCEPT !.usable = FALSE]}

\* jsonwebtoken: the key family of an algorithm and of a JWK.
AlgFamily(alg) == IF alg = "HS256" THEN "Hmac" ELSE "Rsa"
KeyFamily(jwk) == IF jwk.kty = "oct" THEN "Hmac" ELSE "Rsa"

\* The clock decode() reads for the exp check, and the leeway of
\* Validation::default().
Now == 100
Leeway == 60

Payload(sub, exp) ==
  [sub |-> sub, iss |-> NoneOpt, aud |-> NoneOpt, scope |-> NoneOpt, exp |-> exp]

\* A token signed with the key material of `key`, naming `kid` in its header.
Token(kid, alg, key, payload) ==
  [hdrOk |-> TRUE, kid |-> kid, alg |-> alg, sig |-> key, payload |-> payload]

\* An honest token of the issuer for key k: algorithm of the key's type.
Honest(k) ==
  Token(Some(k), IF k % 2 = 0 THEN "HS256" ELSE "RS256", k,
        Payload(Some("alice"), Some(Now + 1)))

\* A token naming a kid the source never serves.
Forged == Token(Some(ForgedKid), "HS256", ForgedKid, Payload(Some("eve"), Some(Now + 1)))

\* The tokens concurrent requests present; the last one names key 0, which
\* did not sign it.
Tokens ==
  {Honest(0), Honest(1), Honest(2), Forged,
   Token(Some(0), "HS256", ForgedKid, Payload(Some("eve"), Some(Now + 1)))}

BrokenKeyToken ==
  Token(Some(BrokenKid), "HS256", BrokenKid, Payload(Some("alice"), Some(Now + 1)))

\* ------------------------------------------------------------------ results
NoClaims == [sub |-> "", iss |-> NoneOpt, aud |-> NoneOpt, scope |-> <<>>, exp |-> NoneOpt]
Pending == [tag |-> "pending", claims |-> NoClaims, err |-> ""]
Ok(c) == [tag |-> "ok", claims |-> c, err |-> ""]
Err(msg) == [tag |-> "err", claims |-> NoClaims, err |-> msg]

ErrHeader == "invalid JWT header"
ErrNoKid == "JWT missing kid header"
ErrNoKey == "no matching key for kid"
ErrJwk == "invalid JWK"
ErrDecode == "JWT validation failed"
ErrRefresh == "JWKS refresh failed"
ErrFetch == "failed to fetch JWKS"
ErrParse == "failed to parse JWKS"
ErrExtract == "missing or malformed Authorization header"

\* ------------------------------------------------------- JwtValidator: build
\* A Validation that also lists sub among the required claims.
DefaultValidationSubRequired ==
  [algorithms |-> {"HS256"}, required |-> {"exp", "sub"}, leeway |-> Leeway,
   validate_exp |-> TRUE, validate_aud |-> TRUE, aud |-> NoneOpt, iss |-> NoneOpt]

\* Validation::default() of jsonwebtoken: HS256 only, exp required and
\* checked with a leeway, audience checked.
DefaultValidation ==
  [algorithms |-> {"HS256"}, required |-> {"exp"}, leeway |-> Leeway,
   validate_exp |-> TRUE, validate_aud |-> TRUE, aud |-> NoneOpt, iss |-> NoneOpt]

\* JwtValidatorBuilder::build, the policy part: audience and issuer are
\* options of the builder.
BuildValidation(audience, issuer) ==
  LET v1 == IF IsSome(audience)
              THEN [DefaultValidation EXCEPT !.aud = audience]
              ELSE [DefaultValidation EXCEPT !.validate_aud = FALSE]
  IN IF IsSome(issuer) THEN [v1 EXCEPT !.iss = issuer] ELSE v1

\* The Validation the validator holds: built from the builder's options.
validation == BuildValidation(policy.audience, policy.issuer)

\* A builder on which neither audience() nor issuer() was called.
NoPolicy == [audience |-> NoneOpt, issuer |-> NoneOpt]

\* A builder on which audience("res") and issuer("iss") were called.
FullPolicy == [audience |-> Some("res"), issuer |-> Some("iss")]

\* ------------------------------------------------ JwtValidator: decode_token
\* The two shapes serde reads an aud claim into.
Single(x) == [tag |-> "Single", s |-> x, v |-> <<>>]
Multiple(list) == [tag |-> "Multiple", s |-> "", v |-> list]

\* An into_vec that keeps one audience only.
AudienceIntoVecFirst(a) ==
  IF a.tag = "Single" THEN <<a.s>>
  ELSE IF a.v = <<>> THEN <<>> ELSE <<Head(a.v)>>

\* Audience::into_vec
AudienceIntoVec(a) == IF a.tag = "Single" THEN <<a.s>> ELSE a.v

IsWhitespace(ch) == ch \in {" ", "\t", "\n"}

\* A split on the space character alone, as str::split(' ') does: an empty
\* word between two spaces, at the start and at the end.
RECURSIVE SplitOnSpaceFrom(_, _, _)
SplitOnSpaceFrom(s, i, word) ==
  IF i > Len(s) THEN <<word>>
  ELSE IF s[i] = " " THEN <<word>> \o SplitOnSpaceFrom(s, i + 1, <<>>)
       ELSE SplitOnSpaceFrom(s, i + 1, Append(word, s[i]))
SplitOnSpace(s) == SplitOnSpaceFrom(s, 1, <<>>)

\* str::split_whitespace on a string given as a sequence of characters: the
\* maximal runs of non-whitespace characters, in order.
SplitWhitespace(s) ==
  LET RECURSIVE SplitFrom(_, _)
      SplitFrom(i, word) ==
        IF i > Len(s)
          THEN IF word = <<>> THEN <<>> ELSE <<word>>
          ELSE IF IsWhitespace(s[i])
                 THEN IF word = <<>> THEN SplitFrom(i + 1, <<>>)
                                     ELSE <<word>> \o SplitFrom(i + 1, <<>>)
                 ELSE SplitFrom(i + 1, Append(word, s[i]))
  IN SplitFrom(1, <<>>)

\* A normalization that gives an absent audience the empty list.
NormalizeAudDefault(raw) ==
  [sub |-> IF IsSome(raw.sub) THEN Unwrap(raw.sub) ELSE "",
   iss |-> raw.iss,
   aud |-> IF IsSome(raw.aud) THEN Some(AudienceIntoVec(Unwrap(raw.aud))) ELSE Some(<<>>),
   scope |-> IF IsSome(raw.scope) THEN SplitWhitespace(Unwrap(raw.scope)) ELSE <<>>,
   exp |-> raw.exp]

\* The OAuthClaims built from the decoded RawClaims.
Normalize(raw) ==
  [sub |-> IF IsSome(raw.sub) THEN Unwrap(raw.sub) ELSE "",
   iss |-> raw.iss,
   aud |-> IF IsSome(raw.aud) THEN Some(AudienceIntoVec(Unwrap(raw.aud))) ELSE NoneOpt,
   scope |-> IF IsSome(raw.scope) THEN SplitWhitespace(Unwrap(raw.scope)) ELSE <<>>,
   exp |-> raw.exp]

AudValues(a) == IF a.tag = "Single" THEN {a.s} ELSE {a.v[i] : i \in 1..Len(a.v)}

\* jsonwebtoken::decode(token, key, validation): the algorithm and key family
\* checks, the signature, then the registered claims.
DecodeOk(token, jwk, v) ==
  /\ \A alg \in v.algorithms : KeyFamily(jwk) = AlgFamily(alg)
  /\ token.alg \in v.algorithms
  /\ token.sig = jwk.key
  /\ \A name \in v.required : IsSome(token.payload[name])
  /\ (v.validate_exp /\ IsSome(token.payload.exp)
        => ~(Unwrap(token.payload.exp) < Now - v.leeway))
  /\ (v.validate_aud /\ IsSome(token.payload.aud)
        => /\ IsSome(v.aud)
           /\ Unwrap(v.aud) \in AudValues(Unwrap(token.payload.aud)))
  /\ (IsSome(token.payload.iss) /\ IsSome(v.iss) => token.payload.iss = v.iss)

HasKid(jwks_, kid) == \E j \in jwks_ : j.kid = kid
Find(jwks_, kid) == CHOOSE j \in jwks_ : j.kid = kid

decode_token(token, jwks_) ==
  IF ~token.hdrOk THEN Err(ErrHeader)
  ELSE IF ~IsSome(token.kid) THEN Err(ErrNoKid)
  ELSE IF ~HasKid(jwks_, Unwrap(token.kid)) THEN Err(ErrNoKey)
  ELSE LET jwk == Find(jwks_, Unwrap(token.kid))
       IN IF ~jwk.usable THEN Err(ErrJwk)
          ELSE IF ~DecodeOk(token, jwk, validation) THEN Err(ErrDecode)
          ELSE Ok(Normalize(token.payload))

\* Whether decode_token reaches jwks.find for this token.
ReachesFind(token) == token.hdrOk /\ IsSome(token.kid)

\* validate's test on the first attempt's error:
\* format!("{e}").contains("no matching key")
IsKeyMiss(r) == r.tag = "err" /\ r.err = ErrNoKey

\* ------------------------------------------------------- tokio::sync::RwLock
\* The lock is fair: waiters queue first-in first-out, and a release hands
\* the lock to the waiters at the head of the queue as far as they are
\* compatible.
RECURSIVE Drain(_)
Drain(l) ==
  IF l.waitq = <<>> \/ l.writer # 0 THEN l
  ELSE LET h == Head(l.waitq)
       IN IF h.mode = "read"
            THEN Drain([l EXCEPT !.readers = @ \cup {h.p}, !.waitq = Tail(@)])
            ELSE IF l.readers = {}
                   THEN [l EXCEPT !.writer = h.p, !.waitq = Tail(@)]
                   ELSE l

\* jwks.read().await, first poll: granted at once, or queued.
ReadAcquire(l, p) ==
  IF l.writer = 0 /\ l.waitq = <<>>
    THEN [l EXCEPT !.readers = @ \cup {p}]
    ELSE [l EXCEPT !.waitq = Append(@, [p |-> p, mode |-> "read"])]

\* jwks.write().await, first poll: granted at once, or queued.
WriteAcquire(l, p) ==
  IF l.writer = 0 /\ l.readers = {} /\ l.waitq = <<>>
    THEN [l EXCEPT !.writer = p]
    ELSE [l EXCEPT !.waitq = Append(@, [p |-> p, mode |-> "write"])]

\* The read guard is dropped: at validate's return, or by drop(jwks).
DropReadGuard(l, p) == Drain([l EXCEPT !.readers = @ \ {p}])

\* Variant: the dropped future's pending acquire stays in the queue.
DropFutureLeak(l, p) ==
  Drain([l EXCEPT !.readers = @ \ {p}, !.writer = IF @ = p THEN 0 ELSE @])

\* The call's future is dropped: its guards are dropped with it and its
\* pending acquire leaves the queue.
DropFuture(l, p) ==
  LET RECURSIVE Without(_)
      Without(q) ==
        IF q = <<>> THEN <<>>
        ELSE IF Head(q).p = p THEN Without(Tail(q))
        ELSE <<Head(q)>> \o Without(Tail(q))
  IN Drain([l EXCEPT !.readers = @ \ {p},
                     !.writer = IF @ = p THEN 0 ELSE @,
                     !.waitq = Without(@)])

Waiting(l, p) == \E i \in 1..Len(l.waitq) : l.waitq[i].p = p

\* ------------------------------------------------------ oauth: error.rs
ResourceServerConfig(url, scope) ==
  [resource_metadata_url |-> url, default_scope |-> scope]

\* The outcome of a call: the value it returns, or a panic that unwinds it.
Returned(v) == [tag |-> "returned", value |-> v]
Panicked == [tag |-> "panic", value |-> <<>>]

\* http::HeaderValue::from_str accepts the bytes 32..=255 other than 127,
\* and the tab; it refuses the other control characters.
HeaderValueFromStr(s) ==
  IF \A i \in 1..Len(s) : s[i] \notin {"\n", "\r"}
    THEN [tag |-> "ok", value |-> s]
    ELSE [tag |-> "err", value |-> <<>>]

\* Result::expect
Expect(r) == IF r.tag = "ok" THEN Returned(r.value) ELSE Panicked

\* The literal parts of the format strings.
LitQuote == <<"\"">>
LitBearerMetadata == <<"B", "e", "a", "r", "e", "r", " ", "r", "e", "s", "o", "u", "r", "c", "e", "_", "m", "e", "t", "a", "d", "a", "t", "a", "=", "\"">>
LitScope == <<",", " ", "s", "c", "o", "p", "e", "=", "\"">>
LitBearerInsufficient == <<"B", "e", "a", "r", "e", "r", " ", "e", "r", "r", "o", "r", "=", "\"", "i", "n", "s", "u", "f", "f", "i", "c", "i", "e", "n", "t", "_", "s", "c", "o", "p", "e", "\"", ",", " ", "s", "c", "o", "p", "e", "=", "\"">>
LitMetadata == <<"\"", ",", " ", "r", "e", "s", "o", "u", "r", "c", "e", "_", "m", "e", "t", "a", "d", "a", "t", "a", "=", "\"">>

www_authenticate_401(config) ==
  LET value == LitBearerMetadata \o config.resource_metadata_url \o LitQuote
  IN Expect(HeaderValueFromStr(
       IF IsSome(config.default_scope)
         THEN value \o LitScope \o Unwrap(config.default_scope) \o LitQuote
         ELSE value))

www_authenticate_403(config, required_scope) ==
  Expect(HeaderValueFromStr(
    LitBearerInsufficient \o required_scope \o LitMetadata
      \o config.resource_metadata_url \o LitQuote))

\* A response: status, body and the WWW-Authenticate header if it has one.
Response(status, body, www) == [status |-> status, body |-> body, www |-> www]

insufficient_scope_response(config, required_scope) ==
  LET h == www_authenticate_403(config, required_scope)
  IN IF h.tag = "panic" THEN Panicked
     ELSE Returned(Response(403, "insufficient scope", Some(h.value)))

\* ------------------------------------------------------------- api_key.rs
\* A byte above 127 in a header value, written as one character.
ObsText == "0x80"

\* http::HeaderValue::to_str: every byte must be visible ASCII (32..=126)
\* or a tab.
IsVisibleAscii(ch) == ch \notin {"\n", "\r", ObsText}
ToStr(v) == IF \A i \in 1..Len(v) : IsVisibleAscii(v[i]) THEN Some(v) ELSE NoneOpt

SecretKey == <<"s", "e", "c", "r", "e", "t", "-", "k", "e", "y">>
\* "x-api-key" and "x-token"
HeaderNames ==
  {<<"x", "-", "a", "p", "i", "-", "k", "e", "y">>, <<"x", "-", "t", "o", "k", "e", "n">>}

\* parts.headers, as far as the named headers go: each absent or present
\* with one of the values a header of the request may hold.
HeaderMaps ==
  [HeaderNames ->
     {NoneOpt} \cup {Some(v) : v \in {SecretKey, <<"a">>, <<"A">>, <<" ", "a">>,
                                       <<"a", " ", "a">>, <<"a", ObsText>>}}]

LitMissing == <<"m", "i", "s", "s", "i", "n", "g", " ">>
LitHeader == <<" ", "h", "e", "a", "d", "e", "r">>

\* The Validator behind the extractor: it accepts one key and returns it as
\* the claims.
KeyStoreValidate(key) ==
  IF key = SecretKey THEN [tag |-> "ok", claims |-> key, err |-> ""]
  ELSE [tag |-> "err", claims |-> <<>>, err |-> "invalid"]

\* str::trim on a sequence of characters.
RECURSIVE TrimStart(_)
TrimStart(v) == IF v # <<>> /\ Head(v) = " " THEN TrimStart(Tail(v)) ELSE v

\* The outcome of authenticate: the result, and the credential validate was
\* called with, if it was called.
AuthOutcome(r, credential) ==
  [tag |-> r.tag, claims |-> r.claims, err |-> r.err, validated |-> credential]

\* Variant: the key is trimmed before it is validated.
ApiKeyAuthenticateTrimmed(header, headers) ==
  LET key == IF IsSome(headers[header]) THEN ToStr(Unwrap(headers[header]))
             ELSE NoneOpt
  IN IF ~IsSome(key)
       THEN AuthOutcome([tag |-> "err", claims |-> <<>>,
                         err |-> LitMissing \o header \o LitHeader], NoneOpt)
       ELSE AuthOutcome(KeyStoreValidate(TrimStart(Unwrap(key))),
                        Some(TrimStart(Unwrap(key))))

\* ApiKeyAuth::authenticate
ApiKeyAuthenticate(header, headers) ==
  LET key == IF IsSome(headers[header]) THEN ToStr(Unwrap(headers[header]))
             ELSE NoneOpt
  IN IF ~IsSome(key)
       THEN AuthOutcome([tag |-> "err", claims |-> <<>>,
                         err |-> LitMissing \o header \o LitHeader], NoneOpt)
       ELSE AuthOutcome(KeyStoreValidate(Unwrap(key)), Some(Unwrap(key)))

\* ------------------------------------------------------------- axum Router
WellKnownPath == "/.well-known/oauth-protected-resource"

\* Json(metadata): the object serde writes, the optional fields left out
\* when they are None.
ToJson(m) ==
  LET always == {"resource", "authorization_servers"}
      present == {k \in DOMAIN m \ always : IsSome(m[k])}
  IN [k \in always \cup present |-> IF k \in always THEN m[k] ELSE Unwrap(m[k])]

\* The routes of a Router after a sequence of builder calls.  nest_service
\* adds the MCP service, merge adds the route of metadata_router, and layer
\* wraps every route the router has at that point, its fallback included.
RECURSIVE Routes(_)
Routes(steps) ==
  IF steps = <<>> THEN {[endpoint |-> "fallback", layered |-> FALSE]}
  ELSE LET before == Routes(SubSeq(steps, 1, Len(steps) - 1))
           last == steps[Len(steps)]
       IN IF last = "nest_service"
            THEN before \cup {[endpoint |-> "mcp", layered |-> FALSE]}
          ELSE IF last = "merge"
            THEN before \cup {[endpoint |-> "metadata", layered |-> FALSE]}
          ELSE {[r EXCEPT !.layered = TRUE] : r \in before}

\* The MCP service behind the layer, without a metadata router.
McpOnly == [assembly |-> <<"nest_service", "layer">>, metadata |-> NoneOpt]

\* The route the router dispatches a request to.
Route(req) ==
  LET routes == Routes(app.assembly)
      name == IF req.uri = "/mcp" THEN "mcp"
              ELSE IF req.uri = WellKnownPath THEN "metadata" ELSE "fallback"
  IN IF \E r \in routes : r.endpoint = name
       THEN CHOOSE r \in routes : r.endpoint = name
       ELSE CHOOSE r \in routes : r.endpoint = "fallback"

\* What the matched route answers: the MCP service, the GET handler of
\* metadata_router (405 for another method), or the fallback's 404.
Handle(req) ==
  LET e == Route(req).endpoint
  IN IF e = "mcp" THEN Response(200, "inner", NoneOpt)
     ELSE IF e = "metadata"
       THEN IF req.method = "GET"
              THEN Response(200, ToJson(Unwrap(app.metadata)), NoneOpt)
              ELSE Response(405, "", NoneOpt)
     ELSE Response(404, "", NoneOpt)

\* --------------------------------------------------------------- requests
NoToken == Token(NoneOpt, "", 0, Payload(NoneOpt, NoneOpt))

\* A Claims value an outer layer left in the inbound request's extensions.
StaleClaims == [NoClaims EXCEPT !.sub = "stale"]

\* http::Request: method, URI, the Authorization header, the Claims slot of
\* the extensions, and the body.
Request(method, uri, auth, ext, body) ==
  [method |-> method, uri |-> uri, auth |-> auth, ext |-> ext, body |-> body]

\* A call of the MCP service with the header h.
Post(h) == Request("POST", "/mcp", h, NoneOpt, "rpc")

\* Inbound requests: the Authorization header, which is absent, present
\* without the "Bearer " prefix (or not visible ASCII, so that to_str
\* fails), or "Bearer <token>", and the Claims slot of the extensions.
Requests ==
  {Post(h) :
     h \in {[tag |-> "absent", token |-> NoToken],
            [tag |-> "malformed", token |-> NoToken]}
             \cup {[tag |-> "bearer", token |-> t] : t \in Tokens}}
    \cup {[Post([tag |-> "bearer", token |-> Honest(0)]) EXCEPT !.ext = Some(StaleClaims)]}

\* build has not been called, has returned Ok(JwtValidator), or has returned
\* the error of fetch_jwks.
Unbuilt == [state |-> "unbuilt", err |-> ""]
Built == [state |-> "built", err |-> ""]
BuildFailed(e) == [state |-> "failed", err |-> e]

NoProbe == [fn |-> "none", arg |-> <<>>, out |-> Panicked]

\* AuthService as the layer builds it: `inner` is instance 0 of the wrapped
\* service, no clone has been made, poll_ready has reported nothing, no
\* future is pending and no instance has been called.
NewService ==
  [inner |-> 0, clones |-> 0, ready |-> {}, polled |-> NoneOpt,
   futures |-> {}, calls |-> {}]

Idle ==
  [pc |-> "idle", op |-> "none",
   req |-> Request("", "", [tag |-> "absent", token |-> NoToken], NoneOpt, ""),
   fetched |-> {}, seen |-> {}, seen2 |-> {},
   vres |-> Pending, ares |-> Pending, resp |-> Response(0, "", NoneOpt), fwd |-> NoneOpt,
   nAuth |-> 0, nValidate |-> 0, nFind |-> 0, nFetch |-> 0, nSwap |-> 0,
   nInsert |-> 0, nInner |-> 0]

Init ==
  /\ jwks = JwksAt(0)
  /\ lock = [readers |-> {}, writer |-> 0, waitq |-> <<>>]
  /\ sourceVer = 0
  /\ served = {JwksAt(0)}
  /\ call = [p \in Procs |-> Idle]
  /\ resource_server = NoneOpt
  /\ policy = NoPolicy
  /\ built = Built
  /\ probe = NoProbe
  /\ app = McpOnly
  /\ service = NewService

\* -------------------------------------------------------------- AuthService
\* Variant: the 401 is built without the challenge header.
UnauthorizedNoChallenge(err) == Returned(Response(401, err, NoneOpt))

\* AuthService::call, the Err branch: status 401, the WWW-Authenticate header
\* if a resource server is configured, the error's display string as body.
Unauthorized(err) ==
  IF IsSome(resource_server)
    THEN LET h == www_authenticate_401(Unwrap(resource_server))
         IN IF h.tag = "panic" THEN Panicked
            ELSE Returned(Response(401, err, Some(h.value)))
    ELSE Returned(Response(401, err, NoneOpt))

\* Variant: a rejected request is answered 401 and still handed on.
RespondForwardsRejected(c, r) ==
  IF r.tag = "ok"
    THEN [c EXCEPT !.pc = "done", !.ares = r,
                   !.fwd = Some([c.req EXCEPT !.ext = Some(r.claims)]),
                   !.nInsert = @ + 1, !.nInner = @ + 1,
                   !.resp = Response(200, "inner", NoneOpt)]
    ELSE [c EXCEPT !.pc = "done", !.ares = r,
                   !.fwd = Some(c.req), !.nInner = @ + 1,
                   !.resp = Response(401, r.err, NoneOpt)]

\* Variant: the claims are inserted only into an empty slot.
RespondKeepsExisting(c, r) ==
  IF r.tag = "ok"
    THEN [c EXCEPT !.pc = "done", !.ares = r,
                   !.fwd = Some([c.req EXCEPT
                                   !.ext = IF IsSome(c.req.ext) THEN c.req.ext
                                           ELSE Some(r.claims)]),
                   !.nInsert = @ + (IF IsSome(c.req.ext) THEN 0 ELSE 1),
                   !.nInner = @ + 1,
                   !.resp = Response(200, "inner", NoneOpt)]
    ELSE [c EXCEPT !.pc = "done", !.ares = r,
                   !.resp = Response(401, r.err, NoneOpt)]

\* Variant: the credential is taken out of the request handed on.
RespondStripsCredential(c, r) ==
  IF r.tag = "ok"
    THEN [c EXCEPT !.pc = "done", !.ares = r,
                   !.fwd = Some([c.req EXCEPT
                                   !.ext = Some(r.claims),
                                   !.auth = [tag |-> "absent", token |-> NoToken]]),
                   !.nInsert = @ + 1, !.nInner = @ + 1,
                   !.resp = Handle(c.req)]
    ELSE LET out == Unauthorized(r.err)
         IN IF out.tag = "panic"
              THEN [c EXCEPT !.pc = "panicked", !.ares = r]
              ELSE [c EXCEPT !.pc = "done", !.ares = r, !.resp = out.value]

\* AuthService::call once authenticate has returned r: on Ok the claims are
\* inserted into the request's extensions (one slot per type: an insert
\* replaces) and the inner service is called with the request, its parts
\* and body as they came; on Err a 401 is built.
Respond(c, r) ==
  IF r.tag = "ok"
    THEN [c EXCEPT !.pc = "done", !.ares = r,
                   !.fwd = Some([c.req EXCEPT !.ext = Some(r.claims)]),
                   !.nInsert = @ + 1, !.nInner = @ + 1,
                   !.resp = Handle(c.req)]
    ELSE LET out == Unauthorized(r.err)
         IN IF out.tag = "panic"
              THEN [c EXCEPT !.pc = "panicked", !.ares = r]
              ELSE [c EXCEPT !.pc = "done", !.ares = r, !.resp = out.value]

\* Variant: a header without the "Bearer " prefix is taken as the token.
BearerExtractLenient(auth) ==
  IF auth.tag \in {"bearer", "malformed"} THEN Some(auth.token) ELSE NoneOpt

\* BearerAuth::authenticate, the extraction: the token after "Bearer ".
BearerExtract(auth) == IF auth.tag = "bearer" THEN Some(auth.token) ELSE NoneOpt

\* Variant: a failed validation is attempted a second time.
ValidateReturnRetry(c, r) ==
  IF r.tag = "err" /\ c.nValidate < 2
    THEN [c EXCEPT !.vres = r, !.nValidate = @ + 1, !.pc = "rreq2"]
    ELSE [c EXCEPT !.pc = "done", !.vres = r, !.ares = r,
                   !.fwd = IF r.tag = "ok"
                             THEN Some([c.req EXCEPT !.ext = Some(r.claims)])
                             ELSE @,
                   !.nInsert = @ + (IF r.tag = "ok" THEN 1 ELSE 0),
                   !.nInner = @ + (IF r.tag = "ok" THEN 1 ELSE 0),
                   !.resp = IF r.tag = "ok" THEN Response(200, "inner", NoneOpt)
                            ELSE Response(401, r.err, NoneOpt)]

\* validate returns r: BearerAuth maps the error to its string and
\* AuthService answers.
ValidateReturn(c, r) == Respond([c EXCEPT !.vres = r], r)

\* Variant: every error of the first attempt starts a refresh.
NeedsRefreshOnAnyError(r) == r.tag = "err"

\* Variant: the first attempt's outcome is ignored and the keys are
\* refreshed for every token.
NeedsRefreshAlways(r) == TRUE

\* Variant: a miss starts no fetch while another call's refresh is under way.
NeedsRefreshCoalesced(r) ==
  IsKeyMiss(r) /\ ~\E q \in Procs : call[q].pc \in {"fetch", "wreq", "write"}

\* validate's decision after the first decode_token: return, or refresh.
NeedsRefresh(r) == IsKeyMiss(r)

\* Variant: the read guard is kept across the refresh.
KeepGuard(l, p) == l

\* drop(jwks) before the refresh.
DropBeforeRefresh(l, p) == DropReadGuard(l, p)

\* Variant: the fetched keys are added to the cached ones.
AssignMerge(old, new) == old \cup new

\* *self.inner.jwks.write().await = jwks: the cache becomes the fetched set.
Assign(old, new) == new

\* Processes are interchangeable: they start in order.
MayStart(p) ==
  /\ call[p].pc = "idle"
  /\ \A q \in Procs : q < p => call[q].pc # "idle"

\* A request enters AuthService::call: authenticate runs the extraction and,
\* with a token, calls validate, which polls jwks.read().
Call(p, rq) ==
  /\ MayStart(p)
  /\ LET c0 == [Idle EXCEPT !.op = "request", !.req = rq, !.nAuth = 1]
         tok == BearerExtract(rq.auth)
     IN IF IsSome(tok)
          THEN /\ call' = [call EXCEPT ![p] = [c0 EXCEPT !.nValidate = 1, !.pc = "read1"]]
               /\ lock' = ReadAcquire(lock, p)
          ELSE /\ call' = [call EXCEPT ![p] = Respond(c0, Err(ErrExtract))]
               /\ lock' = lock
  /\ UNCHANGED <<jwks, sourceVer, served, aux>>

\* validate, first attempt, holding the read guard.
Decode1(p) ==
  /\ call[p].pc = "read1"
  /\ p \in lock.readers
  /\ LET c == call[p]
         tok == c.req.auth.token
         r == decode_token(tok, jwks)
         c1 == [c EXCEPT !.seen = jwks,
                         !.nFind = @ + (IF ReachesFind(tok) THEN 1 ELSE 0)]
     IN IF NeedsRefresh(r)
          THEN /\ call' = [call EXCEPT ![p] = [c1 EXCEPT !.pc = "fetch", !.nFetch = @ + 1]]
               /\ lock' = DropBeforeRefresh(lock, p)
          ELSE /\ call' = [call EXCEPT ![p] = ValidateReturn(c1, r)]
               /\ lock' = DropReadGuard(lock, p)
  /\ UNCHANGED <<jwks, sourceVer, served, aux>>

\* A standalone refresh_jwks call starts its fetch.
Refresh(p) ==
  /\ MayStart(p)
  /\ call' = [call EXCEPT ![p] = [Idle EXCEPT !.op = "refresh", !.nFetch = 1, !.pc = "fetch"]]
  /\ UNCHANGED <<jwks, lock, sourceVer, served, aux>>

\* fetch_jwks returns the set the source serves.
FetchOk(p) ==
  /\ call[p].pc = "fetch"
  /\ call' = [call EXCEPT ![p] = [@ EXCEPT !.fetched = JwksAt(sourceVer), !.pc = "wreq"]]
  /\ served' = served \cup {JwksAt(sourceVer)}
  /\ UNCHANGED <<jwks, lock, sourceVer, aux>>

\* Variant: a failed fetch leaves an empty key set in the cache.
FetchFailClears(p) ==
  /\ call[p].pc = "fetch"
  /\ call' = [call EXCEPT ![p] =
                IF @.op = "request" THEN ValidateReturn(@, Err(ErrRefresh))
                ELSE [@ EXCEPT !.pc = "done", !.vres = Err(ErrFetch)]]
  /\ jwks' = {}
  /\ UNCHANGED <<lock, sourceVer, served, aux>>

\* fetch_jwks fails (the request or the parsing): refresh_jwks returns the
\* error, and validate returns it with its context.
FetchFail(p) ==
  /\ call[p].pc = "fetch"
  /\ call' = [call EXCEPT ![p] =
                IF @.op = "request" THEN ValidateReturn(@, Err(ErrRefresh))
                ELSE [@ EXCEPT !.pc = "done", !.vres = Err(ErrFetch)]]
  /\ UNCHANGED <<jwks, lock, sourceVer, served, aux>>

\* refresh_jwks polls jwks.write().
WriteReq(p) ==
  /\ call[p].pc = "wreq"
  /\ call' = [call EXCEPT ![p].pc = "write"]
  /\ lock' = WriteAcquire(lock, p)
  /\ UNCHANGED <<jwks, sourceVer, served, aux>>

\* refresh_jwks, holding the write guard: the assignment, the guard dropped.
Swap(p) ==
  /\ call[p].pc = "write"
  /\ lock.writer = p
  /\ jwks' = Assign(jwks, call[p].fetched)
  /\ lock' = Drain([lock EXCEPT !.writer = IF @ = p THEN 0 ELSE @])
  /\ call' = [call EXCEPT ![p] =
                IF @.op = "request" THEN [@ EXCEPT !.nSwap = @ + 1, !.pc = "rreq2"]
                ELSE [@ EXCEPT !.nSwap = @ + 1, !.pc = "done", !.vres = Ok(NoClaims)]]
  /\ UNCHANGED <<sourceVer, served, aux>>

\* validate polls jwks.read() for the retry.
ReadReq2(p) ==
  /\ call[p].pc = "rreq2"
  /\ call' = [call EXCEPT ![p].pc = "read2"]
  /\ lock' = ReadAcquire(lock, p)
  /\ UNCHANGED <<jwks, sourceVer, served, aux>>

\* Variant: a retry that misses the key refreshes again.
Decode2Refetch(p) ==
  /\ call[p].pc = "read2"
  /\ p \in lock.readers
  /\ LET c == call[p]
         tok == c.req.auth.token
         r == decode_token(tok, jwks)
         c1 == [c EXCEPT !.seen2 = jwks,
                         !.nFind = @ + (IF ReachesFind(tok) THEN 1 ELSE 0)]
     IN call' = [call EXCEPT ![p] =
                   IF IsKeyMiss(r) /\ c.nFetch < 2
                     THEN [c1 EXCEPT !.pc = "fetch", !.nFetch = @ + 1]
                     ELSE ValidateReturn(c1, r)]
  /\ lock' = DropReadGuard(lock, p)
  /\ UNCHANGED <<jwks, sourceVer, served, aux>>

\* validate, the retry, holding the read guard: its result is returned.
Decode2(p) ==
  /\ call[p].pc = "read2"
  /\ p \in lock.readers
  /\ LET c == call[p]
         tok == c.req.auth.token
         c1 == [c EXCEPT !.seen2 = jwks,
                         !.nFind = @ + (IF ReachesFind(tok) THEN 1 ELSE 0)]
     IN call' = [call EXCEPT ![p] = ValidateReturn(c1, decode_token(tok, jwks))]
  /\ lock' = DropReadGuard(lock, p)
  /\ UNCHANGED <<jwks, sourceVer, served, aux>>

\* A call suspended at an await: waiting for read access, for the fetch, or
\* for exclusive access.
Suspended(p) ==
  \/ call[p].pc \in {"read1", "read2"} /\ p \notin lock.readers
  \/ call[p].pc = "fetch"
  \/ call[p].pc = "write" /\ lock.writer # p

\* The call is abandoned: its future is dropped at the await.
Cancel(p) ==
  /\ Suspended(p)
  /\ call' = [call EXCEPT ![p].pc = "cancelled"]
  /\ lock' = DropFuture(lock, p)
  /\ UNCHANGED <<jwks, sourceVer, served, aux>>

\* The JWKS source rotates its keys.
Rotate ==
  /\ sourceVer < MaxRotations
  /\ sourceVer' = sourceVer + 1
  /\ UNCHANGED <<jwks, lock, served, call, aux>>

Next ==
  \/ \E p \in Procs, rq \in Requests : Call(p, rq)
  \/ \E p \in Procs : Refresh(p)
  \/ \E p \in Procs : Decode1(p)
  \/ \E p \in Procs : FetchOk(p)
  \/ \E p \in Procs : FetchFail(p)
  \/ \E p \in Procs : WriteReq(p)
  \/ \E p \in Procs : Swap(p)
  \/ \E p \in Procs : ReadReq2(p)
  \/ \E p \in Procs : Decode2(p)
  \/ \E p \in Procs : Cancel(p)
  \/ Rotate

Spec == Init /\ [][Next]_vars

\* ------------------------------------------- AuthLayer with a resource server
\* The step of a call that is under way.
Advance ==
  \/ \E p \in Procs : Decode1(p)
  \/ \E p \in Procs : FetchOk(p)
  \/ \E p \in Procs : FetchFail(p)
  \/ \E p \in Procs : WriteReq(p)
  \/ \E p \in Procs : Swap(p)
  \/ \E p \in Procs : ReadReq2(p)
  \/ \E p \in Procs : Decode2(p)
  \/ \E p \in Procs : Cancel(p)

\* The requests sent to the layer: without a header, with a malformed one,
\* with a token the validator accepts, and with one whose kid makes the
\* validator refresh.
RsRequests ==
  {Post(h) :
     h \in {[tag |-> "absent", token |-> NoToken],
            [tag |-> "malformed", token |-> NoToken],
            [tag |-> "bearer", token |-> Honest(0)],
            [tag |-> "bearer", token |-> Forged]}}

\* AuthLayer::new alone, or followed by with_resource_server(config); one
\* resource metadata url has a line feed in it.
InitRs ==
  /\ jwks = JwksAt(0)
  /\ lock = [readers |-> {}, writer |-> 0, waitq |-> <<>>]
  /\ sourceVer = 0
  /\ served = {JwksAt(0)}
  /\ call = [p \in Procs |-> Idle]
  /\ resource_server \in {NoneOpt,
                          Some(ResourceServerConfig(UrlR, NoneOpt)),
                          Some(ResourceServerConfig(UrlR, Some(ScopeTools))),
                          Some(ResourceServerConfig(UrlR \o <<"\n">>, NoneOpt)),
                          Some(ResourceServerConfig(UrlR, Some(<<"\n">>)))}
  /\ policy = NoPolicy
  /\ built = Built
  /\ probe = NoProbe
  /\ app = McpOnly
  /\ service = NewService

NextRs ==
  \/ \E p \in Procs, rq \in RsRequests : Call(p, rq)
  \/ \E p \in Procs : Refresh(p)
  \/ Advance
  \/ Rotate

SpecRs == InitRs /\ [][NextRs]_vars

\* ------------------------------------------------- the helpers on their own

\* Each behaviour draws a configuration and applies one helper to it, once.
InitPure ==
  /\ jwks = JwksAt(0)
  /\ lock = [readers |-> {}, writer |-> 0, waitq |-> <<>>]
  /\ sourceVer = 0
  /\ served = {JwksAt(0)}
  /\ call = [p \in Procs |-> Idle]
  /\ resource_server \in
       {Some(ResourceServerConfig(url, scope)) :
          url \in Strings, scope \in {NoneOpt} \cup {Some(x) : x \in Strings}}
  /\ policy = NoPolicy
  /\ built = Built
  /\ probe = NoProbe
  /\ app = McpOnly
  /\ service = NewService

Www401 ==
  /\ probe = NoProbe
  /\ probe' = [fn |-> "www_authenticate_401", arg |-> <<>>,
               out |-> www_authenticate_401(Unwrap(resource_server))]
  /\ UNCHANGED <<jwks, lock, sourceVer, served, call, resource_server, policy, built, app, service>>

Www403(required_scope) ==
  /\ probe = NoProbe
  /\ probe' = [fn |-> "www_authenticate_403", arg |-> required_scope,
               out |-> www_authenticate_403(Unwrap(resource_server), required_scope)]
  /\ UNCHANGED <<jwks, lock, sourceVer, served, call, resource_server, policy, built, app, service>>

InsufficientScope(required_scope) ==
  /\ probe = NoProbe
  /\ probe' = [fn |-> "insufficient_scope_response", arg |-> required_scope,
               out |-> insufficient_scope_response(Unwrap(resource_server),
                                                   required_scope)]
  /\ UNCHANGED <<jwks, lock, sourceVer, served, call, resource_server, policy, built, app, service>>

ApiKey(header, headers) ==
  /\ probe = NoProbe
  /\ probe' = [fn |-> "ApiKeyAuth::authenticate",
               arg |-> [header |-> header, headers |-> headers],
               out |-> ApiKeyAuthenticate(header, headers)]
  /\ UNCHANGED <<jwks, lock, sourceVer, served, call, resource_server, policy, built, app, service>>

NextPure ==
  \/ Www401
  \/ \E required_scope \in Strings : Www403(required_scope)
  \/ \E required_scope \in Strings : InsufficientScope(required_scope)
  \/ \E header \in HeaderNames, headers \in HeaderMaps : ApiKey(header, headers)

SpecPure == InitPure /\ [][NextPure]_vars

\* --------------------------------------------------- JwtValidatorBuilder::build
\* Before build there is no JwtValidator: no cache, no call.
InitBuild ==
  /\ jwks = {}
  /\ lock = [readers |-> {}, writer |-> 0, waitq |-> <<>>]
  /\ sourceVer = 0
  /\ served = {}
  /\ call = [p \in Procs |-> Idle]
  /\ resource_server = NoneOpt
  /\ policy \in {NoPolicy, FullPolicy}
  /\ built = Unbuilt
  /\ probe = NoProbe
  /\ app = McpOnly
  /\ service = NewService

\* build: fetch_jwks returned the set the source serves, and the validator
\* is constructed around it.
BuildOk ==
  /\ built = Unbuilt
  /\ jwks' = JwksAt(sourceVer)
  /\ served' = served \cup {JwksAt(sourceVer)}
  /\ built' = Built
  /\ UNCHANGED <<lock, sourceVer, call, resource_server, policy, probe, app, service>>

\* Variant: a failed fetch gives a validator with an empty key set.
BuildFailEmptySet(e) ==
  /\ built = Unbuilt
  /\ built' = Built
  /\ UNCHANGED <<jwks, lock, sourceVer, served, call, resource_server, policy, probe, app, service>>

\* build: fetch_jwks failed (the request, or the parsing of its body), and
\* the ? operator returns the error before anything is constructed.
BuildFail(e) ==
  /\ built = Unbuilt
  /\ built' = BuildFailed(e)
  /\ UNCHANGED <<jwks, lock, sourceVer, served, call, resource_server, policy, probe, app, service>>

\* The requests sent through the validator once it is built.
BuildRequests ==
  {Post(h) :
     h \in {[tag |-> "absent", token |-> NoToken],
            [tag |-> "bearer", token |-> Honest(0)],
            [tag |-> "bearer", token |-> Honest(2)]}}

\* Only a built validator takes calls.
NextBuild ==
  \/ BuildOk
  \/ \E e \in {ErrFetch, ErrParse} : BuildFail(e)
  \/ \E p \in Procs, rq \in BuildRequests : built = Built /\ Call(p, rq)
  \/ \E p \in Procs : built = Built /\ Refresh(p)
  \/ Advance
  \/ Rotate

SpecBuild == InitBuild /\ [][NextBuild]_vars

\* ------------------------------------------ one request, every kind of token
\* Tokens the first attempt refuses for another reason than a missing key:
\* a header that does not decode, no kid, the unusable key, an exp in the
\* past beyond the leeway, no exp, an audience or an issuer other than the
\* configured one.
WideRequests ==
  {Post([tag |-> "bearer", token |-> t]) :
     t \in Tokens \cup
           {[Honest(0) EXCEPT !.hdrOk = FALSE],
            [Honest(0) EXCEPT !.kid = NoneOpt],
            BrokenKeyToken,
            Token(Some(0), "HS256", 0, Payload(Some("alice"), Some(Now - Leeway - 1))),
            Token(Some(0), "HS256", 0, Payload(Some("alice"), NoneOpt)),
            Token(Some(0), "HS256", 0,
                  [Payload(Some("alice"), Some(Now + 1))
                     EXCEPT !.aud = Some([tag |-> "Single", s |-> "other", v |-> <<>>])]),
            Token(Some(0), "HS256", 0,
                  [Payload(Some("alice"), Some(Now + 1)) EXCEPT !.iss = Some("other")])}}

\* A validator built with an audience and an issuer.
InitWide ==
  /\ jwks = JwksAt(0)
  /\ lock = [readers |-> {}, writer |-> 0, waitq |-> <<>>]
  /\ sourceVer = 0
  /\ served = {JwksAt(0)}
  /\ call = [p \in Procs |-> Idle]
  /\ resource_server = NoneOpt
  /\ policy = FullPolicy
  /\ built = Built
  /\ probe = NoProbe
  /\ app = McpOnly
  /\ service = NewService

\* The first call is a request with any of the tokens; the calls that run
\* beside it are refreshes.
NextWide ==
  \/ \E rq \in WideRequests : Call(1, rq)
  \/ \E p \in Procs : Refresh(p)
  \/ Advance
  \/ Rotate

SpecWide == InitWide /\ [][NextWide]_vars

\* ------------------------------------------------ validate on a cached key
RawClaims(sub, iss, aud, scope, exp) ==
  [sub |-> sub, iss |-> iss, aud |-> aud, scope |-> scope, exp |-> exp]

\* The scope "a b c".
ScopeABC == <<"a", " ", "b", " ", "c">>

\* Tokens whose kid is in the cache.  Signed by key 0 (oct) with HS256, by
\* key 1 (RSA) with RS256, or naming key 0 and signed by another key; with
\* every combination of sub, of iss, of aud (none, a string, a list of up
\* to MaxAudLen strings) and of exp (none, past the leeway, past within the
\* leeway, in the future); and tokens of key 0 with "a b c" and every scope
\* string of up to MaxScopeLen letters, spaces and tabs.
CachedTokens ==
  {Token(Some(g[1]), g[2], g[3], RawClaims(sub, iss, aud, NoneOpt, exp)) :
     g \in {<<0, "HS256", 0>>, <<1, "RS256", 1>>, <<0, "HS256", ForgedKid>>},
     sub \in {NoneOpt, Some("alice")},
     iss \in {NoneOpt, Some("iss"), Some("other")},
     aud \in {NoneOpt}
              \cup {Some(Single(x)) : x \in {"res", "other"}}
              \cup {Some(Multiple(l)) :
                      l \in UNION {[1..k -> {"res", "other"}] : k \in 0..MaxAudLen}},
     exp \in {NoneOpt, Some(Now - Leeway - 1), Some(Now - 1), Some(Now + 1)}}
  \cup
  {Token(Some(0), "HS256", 0,
         RawClaims(Some("alice"), NoneOpt, NoneOpt, Some(sc), Some(Now + 1))) :
     sc \in {ScopeABC}
              \cup UNION {[1..k -> {"a", "b", " ", "\t"}] : k \in 0..MaxScopeLen}}

\* Each behaviour draws the builder's options and validates one token.
InitDecode ==
  /\ jwks = JwksAt(0)
  /\ lock = [readers |-> {}, writer |-> 0, waitq |-> <<>>]
  /\ sourceVer = 0
  /\ served = {JwksAt(0)}
  /\ call = [p \in Procs |-> Idle]
  /\ resource_server = NoneOpt
  /\ policy \in [audience : {NoneOpt, Some("res")}, issuer : {NoneOpt, Some("iss")}]
  /\ built = Built
  /\ probe = NoProbe
  /\ app = McpOnly
  /\ service = NewService

\* JwtValidator::validate for a token whose kid is in the cache: the read
\* guard is taken and released, and the first attempt's result is returned.
ValidateCached(token) ==
  /\ probe = NoProbe
  /\ lock.writer = 0
  /\ HasKid(jwks, Unwrap(token.kid))
  /\ probe' = [fn |-> "validate", arg |-> token, out |-> decode_token(token, jwks)]
  /\ UNCHANGED <<jwks, lock, sourceVer, served, call, resource_server, policy, built, app, service>>

NextDecode == \E token \in CachedTokens : ValidateCached(token)

SpecDecode == InitDecode /\ [][NextDecode]_vars

\* ------------------------------------------------------- the assembled app
\* A request the router dispatches: to a route the layer wraps, through
\* AuthService::call; to another route, straight to its handler.
Serve(p, rq) ==
  IF Route(rq).layered
    THEN Call(p, rq)
    ELSE /\ MayStart(p)
         /\ call' = [call EXCEPT ![p] = [Idle EXCEPT !.op = "request", !.req = rq,
                                                     !.pc = "done",
                                                     !.resp = Handle(rq)]]
         /\ UNCHANGED <<jwks, lock, sourceVer, served, aux>>

\* GET and POST requests to the MCP service and to the discovery endpoint:
\* without a credential, with a token the validator accepts, with one it
\* refuses; with and without a Claims value left by an outer layer.
AppRequests ==
  {Request(m[1], uri, h, ext, m[2]) :
     m \in {<<"GET", "">>, <<"POST", "rpc">>}, uri \in {"/mcp", WellKnownPath},
     h \in {[tag |-> "absent", token |-> NoToken],
            [tag |-> "bearer", token |-> Honest(0)],
            [tag |-> "bearer", token |-> Forged]},
     ext \in {NoneOpt, Some(StaleClaims)}}

\* The application is assembled as in the example of auth/mod.rs, of
\* oauth/metadata.rs or of lib.rs, or with the metadata router merged after
\* the layer.  When it merges the metadata router it hands it a
\* ProtectedResourceMetadata: authorization_servers is a Vec of any
\* length, the last three fields are options.  Two documents are drawn:
\* one without authorization servers and without optional fields, one
\* with a server and the supported scopes.
InitApp ==
  /\ jwks = JwksAt(0)
  /\ lock = [readers |-> {}, writer |-> 0, waitq |-> <<>>]
  /\ sourceVer = 0
  /\ served = {JwksAt(0)}
  /\ call = [p \in Procs |-> Idle]
  /\ resource_server = NoneOpt
  /\ policy = NoPolicy
  /\ built = Built
  /\ probe = NoProbe
  /\ service = NewService
  /\ app \in {[assembly |-> a, metadata |-> m] :
                a \in {<<"nest_service", "layer">>, <<"nest_service", "merge">>,
                       <<"nest_service", "merge", "layer">>,
                       <<"nest_service", "layer", "merge">>},
                m \in {NoneOpt}
                       \cup {Some([resource |-> "https://mcp",
                                   authorization_servers |-> d[1],
                                   scopes_supported |-> d[2],
                                   bearer_methods_supported |-> NoneOpt,
                                   resource_documentation |-> NoneOpt]) :
                               d \in {<<<<>>, NoneOpt>>,
                                      <<<<"https://auth">>, Some(<<"mcp:tools">>)>>}}}
  /\ IsSome(app.metadata) <=> \E i \in 1..Len(app.assembly) : app.assembly[i] = "merge"

\* The first call is a request; the calls that run beside it are refreshes.
NextApp ==
  \/ \E rq \in AppRequests : Serve(1, rq)
  \/ \E p \in Procs : Refresh(p)
  \/ Advance
  \/ Rotate

SpecApp == InitApp /\ [][NextApp]_vars

\* ------------------------------------------------- filesystem: validate_path
\* A path is the sequence of its components below the root.  The tree the
\* server runs on: the directories /a and /e, the files /a/f and /e/p, the
\* symlink /a/out to the file /e/p, and the symlink /a/new to /e/n, which
\* does not exist.
Fs ==
  LET dir == [kind |-> "dir", target |-> <<>>]
      file == [kind |-> "file", target |-> <<>>]
  IN (<<>> :> dir) @@ (<<"a">> :> dir) @@ (<<"e">> :> dir)
     @@ (<<"a", "f">> :> file) @@ (<<"e", "p">> :> file)
     @@ (<<"a", "out">> :> [kind |-> "link", target |-> <<"e", "p">>])
     @@ (<<"a", "new">> :> [kind |-> "link", target |-> <<"e", "n">>])

\* A component that holds a NUL byte.
NulName == "f\\0"

\* Path::canonicalize from the canonical directory cur, rest being the
\* components still to walk: ".." goes to the parent, a symlink is replaced
\* by its target, a missing entry or a non-directory on the way fails.
RECURSIVE Walk(_, _)
Walk(cur, rest) ==
  IF rest = <<>> THEN [ok |-> TRUE, path |-> cur]
  ELSE IF Fs[cur].kind # "dir" THEN [ok |-> FALSE, path |-> <<>>]
  ELSE IF Head(rest) = ".."
    THEN Walk(SubSeq(cur, 1, Len(cur) - 1), Tail(rest))
  ELSE LET next == Append(cur, Head(rest))
       IN IF next \notin DOMAIN Fs THEN [ok |-> FALSE, path |-> <<>>]
          ELSE IF Fs[next].kind = "link"
            THEN Walk(<<>>, Fs[next].target \o Tail(rest))
          ELSE Walk(next, Tail(rest))
Canonicalize(path) == Walk(<<>>, path)

\* Path::starts_with: whole components.
StartsWith(path, dir) ==
  Len(dir) <= Len(path) /\ SubSeq(path, 1, Len(dir)) = dir

\* A validate_path that joins the file name to the parent as written.
validate_path_lexical(path, allowed_dirs) ==
  IF \E i \in 1..Len(path) : path[i] = NulName
    THEN [tag |-> "err", err |-> "path contains null byte", path |-> <<>>]
  ELSE LET whole == Canonicalize(path)
           canonical ==
             IF whole.ok THEN Some(whole.path)
             ELSE IF path = <<>> \/ path[Len(path)] = ".." THEN NoneOpt
             ELSE Some(path)
       IN IF ~IsSome(canonical)
            THEN [tag |-> "err", err |-> "io error", path |-> <<>>]
          ELSE IF \E i \in 1..Len(allowed_dirs) :
                    StartsWith(Unwrap(canonical), allowed_dirs[i])
            THEN [tag |-> "ok", err |-> "", path |-> Unwrap(canonical)]
          ELSE [tag |-> "err", err |-> "path not allowed", path |-> Unwrap(canonical)]

\* validate_path: the NUL check; the canonical path of a path that exists,
\* else the canonical parent joined with the file name; the prefix check.
validate_path(path, allowed_dirs) ==
  IF \E i \in 1..Len(path) : path[i] = NulName
    THEN [tag |-> "err", err |-> "path contains null byte", path |-> <<>>]
  ELSE LET whole == Canonicalize(path)
           parent == Canonicalize(SubSeq(path, 1, Len(path) - 1))
           canonical ==
             IF whole.ok THEN Some(whole.path)
             ELSE IF path = <<>> \/ ~parent.ok \/ path[Len(path)] = ".."
               THEN NoneOpt
             ELSE Some(Append(parent.path, path[Len(path)]))
       IN IF ~IsSome(canonical)
            THEN [tag |-> "err", err |-> "io error", path |-> <<>>]
          ELSE IF \E i \in 1..Len(allowed_dirs) :
                    StartsWith(Unwrap(canonical), allowed_dirs[i])
            THEN [tag |-> "ok", err |-> "", path |-> Unwrap(canonical)]
          ELSE [tag |-> "err", err |-> "path not allowed", path |-> Unwrap(canonical)]

\* ------------------------------------------------------ filesystem: the tools
\* What a tool does is the sequence of its steps: a validate_path call with
\* its outcome, or an access to the file system at a path.
Validation(path, v) ==
  [op |-> "validate_path", path |-> path, ok |-> v.tag = "ok", to |-> <<>>]
Access(op, path, to) == [op |-> op, path |-> path, ok |-> TRUE, to |-> to]

\* read_multiple_files: each path is validated and, when valid, read.
RECURSIVE ReadEach(_, _)
ReadEach(paths, allowed_dirs) ==
  IF paths = <<>> THEN <<>>
  ELSE LET v == validate_path(Head(paths), allowed_dirs)
       IN <<Validation(Head(paths), v)>>
            \o (IF v.tag = "ok" THEN <<Access("read_to_string", v.path, <<>>)>>
                ELSE <<>>)
            \o ReadEach(Tail(paths), allowed_dirs)

\* A move_file that validates its source only.
ToolStepsUncheckedDestination(tool, paths, allowed_dirs) ==
  IF tool = "read_multiple_files" THEN ReadEach(paths, allowed_dirs)
  ELSE LET v == validate_path(paths[1], allowed_dirs)
       IN IF v.tag # "ok" THEN <<Validation(paths[1], v)>>
          ELSE IF tool = "move_file"
            THEN <<Validation(paths[1], v), Access("rename", v.path, paths[2])>>
          ELSE <<Validation(paths[1], v),
                 Access(CASE tool = "read_file" -> "read_to_string"
                          [] tool = "write_file" -> "write"
                          [] tool = "create_directory" -> "create_dir_all"
                          [] tool = "directory_tree" -> "symlink_metadata"
                          [] OTHER -> "read_dir",
                        v.path, <<>>)>>

\* The steps of read_file, read_multiple_files, write_file,
\* create_directory, list_directory, directory_tree and move_file on the
\* paths of their parameters: `?` ends the tool at a failed validation.
ToolSteps(tool, paths, allowed_dirs) ==
  IF tool = "read_multiple_files" THEN ReadEach(paths, allowed_dirs)
  ELSE LET v == validate_path(paths[1], allowed_dirs)
       IN IF v.tag # "ok" THEN <<Validation(paths[1], v)>>
          ELSE IF tool = "move_file"
            THEN LET w == validate_path(paths[2], allowed_dirs)
                 IN IF w.tag # "ok"
                      THEN <<Validation(paths[1], v), Validation(paths[2], w)>>
                      ELSE <<Validation(paths[1], v), Validation(paths[2], w),
                             Access("rename", v.path, w.path)>>
          ELSE <<Validation(paths[1], v),
                 Access(CASE tool = "read_file" -> "read_to_string"
                          [] tool = "write_file" -> "write"
                          [] tool = "create_directory" -> "create_dir_all"
                          [] tool = "directory_tree" -> "symlink_metadata"
                          [] OTHER -> "read_dir",
                        v.path, <<>>)>>

\* str::contains on strings given as sequences of characters.
Contains(s, t) ==
  \E i \in 0..(Len(s) - Len(t)) : SubSeq(s, i + 1, i + Len(t)) = t

\* A replace of every occurrence, as str::replace does.
RECURSIVE ReplaceAll(_, _, _)
ReplaceAll(s, old, new) ==
  IF old = <<>> THEN new \o s
  ELSE IF Len(s) >= Len(old) /\ SubSeq(s, 1, Len(old)) = old
    THEN new \o ReplaceAll(SubSeq(s, Len(old) + 1, Len(s)), old, new)
  ELSE IF s = <<>> THEN <<>>
  ELSE <<Head(s)>> \o ReplaceAll(Tail(s), old, new)

\* str::replacen(old, new, 1): the scan from the left replaces the first
\* match; the empty pattern matches at the start.
RECURSIVE Replacen1(_, _, _)
Replacen1(s, old, new) ==
  IF Len(s) >= Len(old) /\ SubSeq(s, 1, Len(old)) = old
    THEN new \o SubSeq(s, Len(old) + 1, Len(s))
  ELSE IF s = <<>> THEN <<>>
  ELSE <<Head(s)>> \o Replacen1(Tail(s), old, new)

\* edit_file, the loop over the edits: the content after the edits, or the
\* first old_text that is not found.
RECURSIVE ApplyEdits(_, _)
ApplyEdits(content, edits) ==
  IF edits = <<>> THEN [found |-> TRUE, content |-> content]
  ELSE IF ~Contains(content, Head(edits).old_text)
    THEN [found |-> FALSE, content |-> content]
  ELSE ApplyEdits(Replacen1(content, Head(edits).old_text, Head(edits).new_text),
                  Tail(edits))

\* edit_file on a file whose content is `original` when the validated path
\* is a file (read_to_string fails on anything else): validation, read,
\* the edits, and the write unless dry_run is Some(true).  The diff it
\* returns is kept as the pair of the two contents.
edit_file(path, original, edits, dry_run, allowed_dirs) ==
  LET v == validate_path(path, allowed_dirs)
      read == Access("read_to_string", v.path, <<>>)
      whole == Canonicalize(v.path)
      e == ApplyEdits(original, edits)
  IN IF v.tag # "ok"
       THEN [tag |-> "err", steps |-> <<Validation(path, v)>>, written |-> NoneOpt]
     ELSE IF ~(whole.ok /\ Fs[whole.path].kind = "file")
       THEN [tag |-> "err", steps |-> <<Validation(path, v), read>>, written |-> NoneOpt]
     ELSE IF ~e.found
       THEN [tag |-> "err", steps |-> <<Validation(path, v), read>>, written |-> NoneOpt]
     ELSE IF IsSome(dry_run) /\ Unwrap(dry_run)
       THEN [tag |-> "ok", steps |-> <<Validation(path, v), read>>, written |-> NoneOpt]
     ELSE [tag |-> "ok",
           steps |-> <<Validation(path, v), read, Access("write", v.path, <<>>)>>,
           written |-> Some(e.content)]

\* glob::glob on the pattern `comps` below the path cur, as written: a name
\* is kept when it exists, "*" takes every entry of the directory, ".."
\* is appended to a directory as it stands.  The matches are the paths as
\* written, not resolved.
RECURSIVE Glob(_, _)
Glob(cur, comps) ==
  IF comps = <<>> THEN {cur}
  ELSE LET here == Canonicalize(cur)
           c == Head(comps)
       IN IF ~here.ok \/ Fs[here.path].kind # "dir" THEN {}
          ELSE IF c = ".." THEN Glob(Append(cur, ".."), Tail(comps))
          ELSE IF c = "*"
            THEN UNION {Glob(Append(cur, p[Len(p)]), Tail(comps)) :
                          p \in {q \in DOMAIN Fs :
                                   /\ Len(q) = Len(here.path) + 1
                                   /\ SubSeq(q, 1, Len(here.path)) = here.path}}
          ELSE IF Canonicalize(Append(cur, c)).ok
            THEN Glob(Append(cur, c), Tail(comps))
          ELSE {}

\* search_files without exclude patterns: the base is validated, the
\* pattern is joined to it, and the matches that start with an allowed
\* directory are returned.
search_files(path, pattern, allowed_dirs) ==
  LET v == validate_path(path, allowed_dirs)
  IN IF v.tag # "ok" THEN [tag |-> "err", matches |-> {}]
     ELSE [tag |-> "ok",
           matches |-> {m \in Glob(v.path, pattern) :
                          \E i \in 1..Len(allowed_dirs) :
                            StartsWith(m, allowed_dirs[i])}]

\* One call of validate_path.
ValidatePath(path, allowed_dirs) ==
  /\ probe = NoProbe
  /\ probe' = [fn |-> "validate_path",
               arg |-> [path |-> path, allowed_dirs |-> allowed_dirs],
               out |-> validate_path(path, allowed_dirs)]
  /\ UNCHANGED <<jwks, lock, sourceVer, served, call, resource_server, policy, built, app, service>>

\* One call of a tool that takes paths only.
CallTool(tool, paths, allowed_dirs) ==
  /\ probe = NoProbe
  /\ probe' = [fn |-> "tool",
               arg |-> [tool |-> tool, paths |-> paths, allowed_dirs |-> allowed_dirs],
               out |-> ToolSteps(tool, paths, allowed_dirs)]
  /\ UNCHANGED <<jwks, lock, sourceVer, served, call, resource_server, policy, built, app, service>>

\* One call of edit_file.
EditFile(path, original, edits, dry_run, allowed_dirs) ==
  /\ probe = NoProbe
  /\ probe' = [fn |-> "edit_file",
               arg |-> [path |-> path, original |-> original, edits |-> edits,
                        dry_run |-> dry_run, allowed_dirs |-> allowed_dirs],
               out |-> edit_file(path, original, edits, dry_run, allowed_dirs)]
  /\ UNCHANGED <<jwks, lock, sourceVer, served, call, resource_server, policy, built, app, service>>

\* One call of search_files.
SearchFiles(path, pattern, allowed_dirs) ==
  /\ probe = NoProbe
  /\ probe' = [fn |-> "search_files",
               arg |-> [path |-> path, pattern |-> pattern,
                        allowed_dirs |-> allowed_dirs],
               out |-> search_files(path, pattern, allowed_dirs)]
  /\ UNCHANGED <<jwks, lock, sourceVer, served, call, resource_server, policy, built, app, service>>

\* Every path of up to MaxPathLen components over the names of the tree,
\* "..", a new name and a name with a NUL byte; the allowed directories are
\* none, /a, /e, both, or the root.
NextFs ==
  \/ /\ probe = NoProbe
     /\ \E path \in UNION {[1..k -> {"a", "e", "f", "p", "out", "new", "n", "..", NulName}] :
                          k \in 0..MaxPathLen},
        allowed_dirs \in {<<>>, <<<<"a">>>>, <<<<"e">>>>, <<<<"a">>, <<"e">>>>, <<<<>>>>} :
       ValidatePath(path, allowed_dirs)
  \/ /\ probe = NoProbe
     /\ \E tool \in {"read_file", "read_multiple_files", "write_file", "create_directory",
                   "list_directory", "directory_tree", "move_file"},
        paths \in [1..2 -> {<<"a", "f">>, <<"a", "n">>, <<"a", "out">>, <<"e", "p">>,
                            <<"a", NulName>>}],
        allowed_dirs \in {<<>>, <<<<"a">>>>} :
       CallTool(tool, paths, allowed_dirs)
  \/ /\ probe = NoProbe
     /\ \E path \in {<<"a", "f">>, <<"a">>, <<"e", "p">>},
        original \in UNION {[1..k -> {"a", "b"}] : k \in 0..MaxTextLen},
        edits \in UNION {[1..k -> [old_text : {<<>>, <<"a">>, <<"b">>, <<"a", "b">>},
                                   new_text : {<<>>, <<"b">>, <<"b", "a">>}]] :
                           k \in 0..MaxEdits},
        dry_run \in {NoneOpt, Some(TRUE), Some(FALSE)} :
       EditFile(path, original, edits, dry_run, <<<<"a">>>>)
  \/ /\ probe = NoProbe
     /\ \E path \in {<<"a">>, <<"e">>},
        pattern \in UNION {[1..k -> {"*", "..", "e", "f"}] : k \in 0..MaxPathLen},
        allowed_dirs \in {<<<<"a">>>>, <<<<"a">>, <<"e">>>>} :
       SearchFiles(path, pattern, allowed_dirs)

SpecFs == Init /\ [][NextFs]_vars

\* ---------------------------------------------------------------- time server
\* parse_tz: the names chrono-tz knows parse to a zone, any other name gives
\* the formatted error.
parse_tz(name) ==
  IF name \in {"UTC", "Europe/Warsaw"}
    THEN [tag |-> "ok", tz |-> name, err |-> <<>>]
    ELSE [tag |-> "err", tz |-> "", err |-> <<"Invalid timezone: ", name>>]

\* str::split(':') on a string given as a sequence of characters: empty
\* parts are kept.
RECURSIVE SplitColon(_)
SplitColon(s) ==
  IF \A i \in 1..Len(s) : s[i] # ":" THEN <<s>>
  ELSE LET i == CHOOSE k \in 1..Len(s) :
                  s[k] = ":" /\ \A j \in 1..(k - 1) : s[j] # ":"
       IN <<SubSeq(s, 1, i - 1)>> \o SplitColon(SubSeq(s, i + 1, Len(s)))

\* str::parse::<u32>: an optional "+", then at least one digit and nothing
\* else.  The overflow error needs ten digits, more than a time string of
\* MaxTimeLen characters holds.
ParseU32(s) ==
  LET digits == IF s # <<>> /\ Head(s) = "+" THEN Tail(s) ELSE s
      Digit == ("0" :> 0) @@ ("2" :> 2) @@ ("6" :> 6)
      RECURSIVE Value(_)
      Value(d) == IF d = <<>> THEN 0
                  ELSE 10 * Value(SubSeq(d, 1, Len(d) - 1)) + Digit[d[Len(d)]]
  IN IF digits = <<>> \/ \E i \in 1..Len(digits) : digits[i] \notin DOMAIN Digit
       THEN [ok |-> FALSE, value |-> 0]
     ELSE [ok |-> TRUE, value |-> Value(digits)]

\* A convert_time whose range check lets hour 24 and minute 60 through.
convert_time_to_24(source_timezone, time, target_timezone, today) ==
  LET source_tz == parse_tz(source_timezone)
      target_tz == parse_tz(target_timezone)
      parts == SplitColon(time)
      hour == ParseU32(parts[1])
      minute == ParseU32(parts[2])
      Failed(text) == [tag |-> "err", err |-> text, result |-> <<>>]
  IN IF source_tz.tag = "err" THEN Failed(source_tz.err)
     ELSE IF target_tz.tag = "err" THEN Failed(target_tz.err)
     ELSE IF Len(parts) # 2
       THEN Failed(<<"Invalid time format. Expected HH:MM (24-hour format)">>)
     ELSE IF ~hour.ok THEN Failed(<<"Invalid hour in time">>)
     ELSE IF ~minute.ok THEN Failed(<<"Invalid minute in time">>)
     ELSE IF hour.value > 24 \/ minute.value > 60
       THEN Failed(<<"Invalid time. Hour must be 0-23, minute must be 0-59">>)
     ELSE [tag |-> "ok", err |-> <<>>,
           result |-> [hour |-> hour.value, minute |-> minute.value]]

\* convert_time.  `today` is the date Utc::now() gives in the source zone:
\* an ordinary winter day, the day the clocks of Europe/Warsaw go from 02:00
\* to 03:00, or the day they go back from 03:00 to 02:00.  An hour the
\* source zone skips or repeats that day is not `single`.
convert_time(source_timezone, time, target_timezone, today) ==
  LET source_tz == parse_tz(source_timezone)
      target_tz == parse_tz(target_timezone)
      parts == SplitColon(time)
      hour == ParseU32(parts[1])
      minute == ParseU32(parts[2])
      Failed(text) == [tag |-> "err", err |-> text, result |-> <<>>]
      warsaw == source_tz.tz = "Europe/Warsaw"
      single == ~(warsaw /\ today # "ordinary" /\ hour.value = 2)
      source_offset ==
        IF ~warsaw THEN 0
        ELSE IF today = "ordinary" THEN 1
        ELSE IF today = "spring_forward" THEN (IF hour.value < 2 THEN 1 ELSE 2)
        ELSE (IF hour.value < 2 THEN 2 ELSE 1)
      utc == 60 * (hour.value - source_offset) + minute.value
      target_offset ==
        IF target_tz.tz # "Europe/Warsaw" THEN 0
        ELSE IF today = "ordinary" THEN 1
        ELSE IF today = "spring_forward" THEN (IF utc < 60 THEN 1 ELSE 2)
        ELSE (IF utc < 60 THEN 2 ELSE 1)
      local == (utc + 60 * target_offset) % 1440
  IN IF source_tz.tag = "err" THEN Failed(source_tz.err)
     ELSE IF target_tz.tag = "err" THEN Failed(target_tz.err)
     ELSE IF Len(parts) # 2
       THEN Failed(<<"Invalid time format. Expected HH:MM (24-hour format)">>)
     ELSE IF ~hour.ok THEN Failed(<<"Invalid hour in time">>)
     ELSE IF ~minute.ok THEN Failed(<<"Invalid minute in time">>)
     ELSE IF hour.value >= 24 \/ minute.value >= 60
       THEN Failed(<<"Invalid time. Hour must be 0-23, minute must be 0-59">>)
     ELSE IF ~single THEN Failed(<<"Ambiguous or invalid time in source timezone">>)
     ELSE [tag |-> "ok", err |-> <<>>,
           result |-> [source |-> [timezone |-> source_tz.tz, hour |-> hour.value,
                                   minute |-> minute.value,
                                   is_dst |-> source_offset = 2],
                       target |-> [timezone |-> target_tz.tz, hour |-> local \div 60,
                                   minute |-> local % 60,
                                   is_dst |-> target_offset = 2],
                       time_difference |-> target_offset - source_offset]]

\* One call of convert_time.
ConvertTime(source_timezone, time, target_timezone, today) ==
  /\ probe = NoProbe
  /\ probe' = [fn |-> "convert_time",
               arg |-> [source_timezone |-> source_timezone, time |-> time,
                        target_timezone |-> target_timezone, today |-> today],
               out |-> convert_time(source_timezone, time, target_timezone, today)]
  /\ UNCHANGED <<jwks, lock, sourceVer, served, call, resource_server, policy, built, app, service>>

\* Every time string of up to MaxTimeLen characters over digits, the colon,
\* the plus sign and one other character, between zones chrono-tz knows and
\* names it does not.
NextTime ==
  /\ probe = NoProbe
  /\ \E time \in UNION {[1..k -> {"0", "2", "6", ":", "+", "x"}] : k \in 0..MaxTimeLen},
        zones \in {<<"UTC", "Europe/Warsaw">>, <<"Europe/Warsaw", "UTC">>,
                   <<"Mars/Olympus", "UTC">>, <<"UTC", "utc ">>,
                   <<"", "Nowhere">>},
        today \in {"ordinary", "spring_forward", "fall_back"} :
       ConvertTime(zones[1], time, zones[2], today)

SpecTime == Init /\ [][NextTime]_vars

\* --------------------------------------------- calls that run to completion
\* A step of call p other than being abandoned: a poll of a lock that was
\* granted, a fetch that completes, the assignment, the return.
Step(p) ==
  \/ Decode1(p)
  \/ FetchOk(p)
  \/ FetchFail(p)
  \/ WriteReq(p)
  \/ Swap(p)
  \/ ReadReq2(p)
  \/ Decode2(p)

\* The calls are requests whose token is validated against a cached key or
\* misses its kid, and refresh_jwks calls; the source serves one set.
NextLive ==
  \/ \E p \in Procs, rq \in RsRequests : Call(p, rq)
  \/ \E p \in Procs : Refresh(p)
  \/ \E p \in Procs : Step(p)
  \/ \E p \in Procs : Cancel(p)

\* The executor polls every future that can make progress, every fetch
\* completes, and the lock grants in the order of its queue (Drain).
SpecLive ==
  Init /\ [][NextLive]_vars /\ \A p \in Procs : WF_vars(Step(p))

\* ------------------------------------------------- AuthService as a Service
\* A call that keeps the polled instance in place and moves the clone into
\* the future.
TakeClone(inner, clone) == [stays |-> inner, moved |-> clone]

\* let mut inner = self.inner.clone(); mem::swap(&mut self.inner, &mut inner):
\* the clone stays in the AuthService, the instance that was there moves
\* into the future.
CloneAndSwap(inner, clone) == [stays |-> clone, moved |-> inner]

\* AuthService::poll_ready polls the instance in `inner`, which answers
\* Ready or Pending.  A ready instance stays ready until it is called.
PollReady(ready) ==
  /\ service' = [service EXCEPT
                   !.ready = IF ready THEN @ \cup {service.inner} ELSE @,
                   !.polled = IF ready THEN Some(service.inner) ELSE NoneOpt]
  /\ UNCHANGED <<jwks, lock, sourceVer, served, call, resource_server, policy, built,
                 probe, app>>

\* AuthService::call, up to the future it returns.  The caller keeps the
\* Service contract: the last poll_ready returned Ready and no call has been
\* made since.  A clone is a new instance that nobody has polled.
ServiceCall ==
  /\ IsSome(service.polled)
  /\ service.clones < MaxCalls
  /\ LET t == CloneAndSwap(service.inner, service.clones + 1)
     IN service' = [service EXCEPT
                      !.inner = t.stays,
                      !.clones = @ + 1,
                      !.polled = NoneOpt,
                      !.futures = @ \cup {[inner |-> t.moved, polled |-> service.polled]}]
  /\ UNCHANGED <<jwks, lock, sourceVer, served, call, resource_server, policy, built,
                 probe, app>>

\* The future of a call, authenticate returned Ok: inner.call(req) on the
\* instance the future holds, which uses up its readiness.
InnerCall(f) ==
  /\ f \in service.futures
  /\ service' = [service EXCEPT
                   !.futures = @ \ {f},
                   !.ready = @ \ {f.inner},
                   !.calls = @ \cup {[inner |-> f.inner, polled |-> f.polled,
                                      ready |-> f.inner \in service.ready]}]
  /\ UNCHANGED <<jwks, lock, sourceVer, served, call, resource_server, policy, built,
                 probe, app>>

\* The future of a call, authenticate returned Err: the 401 is answered and
\* the instance is dropped with the future, uncalled.
Refused(f) ==
  /\ f \in service.futures
  /\ service' = [service EXCEPT !.futures = @ \ {f}]
  /\ UNCHANGED <<jwks, lock, sourceVer, served, call, resource_server, policy, built,
                 probe, app>>

NextService ==
  \/ \E ready \in BOOLEAN : PollReady(ready)
  \/ ServiceCall
  \/ \E f \in service.futures : InnerCall(f)
  \/ \E f \in service.futures : Refused(f)

SpecService == Init /\ [][NextService]_vars

\* ------------------------------------------------------------------ claims
IsRequest(p) == call[p].op = "request"
Tok(p) == call[p].req.auth.token

\* The call's first lookup has run and did not find the token's kid.
Missed1(p) == call[p].seen # {} /\ IsKeyMiss(decode_token(Tok(p), call[p].seen))

C2_FetchedSetDecides ==
  \A p \in Procs :
    (IsRequest(p) /\ call[p].pc = "done" /\ Missed1(p) /\ call[p].fetched # {})
      => /\ call[p].nFetch = 1
         /\ call[p].nSwap = 1
         /\ call[p].nFind = 2
         /\ (decode_token(Tok(p), call[p].fetched).tag = "ok"
               => call[p].vres = decode_token(Tok(p), call[p].fetched))

\* The step in which process p's fetch fails.
FetchFailedStep(p) ==
  call[p].pc = "fetch" /\ call'[p].pc = "done" /\ call'[p].vres.tag = "err"

\* C3: a failed fetch, in validate's lazy refresh or in refresh_jwks, makes
\* that call return an error and changes neither the cache nor any other
\* call; a validate whose lookup finds a verifying key in the cache succeeds
\* whatever fetches have failed.
C3_FailedFetchKeepsCache ==
  /\ [][\A p \in Procs :
          FetchFailedStep(p) =>
            /\ jwks' = jwks
            /\ lock' = lock
            /\ call'[p].vres.err \in {ErrRefresh, ErrFetch}
            /\ call'[p].nSwap = 0
            /\ \A q \in Procs \ {p} : call'[q] = call[q]]_vars
  /\ [](\A q \in Procs :
          (IsRequest(q) /\ call[q].pc = "done" /\ call[q].seen # {}
             /\ decode_token(Tok(q), call[q].seen).tag = "ok")
            => call[q].vres.tag = "ok")

\* A lazy refresh failed, the initial set is still cached, and another
\* request was validated against it.
C3_Witness ==
  \E p, q \in Procs :
    /\ call[p].pc = "done" /\ call[p].vres.err = ErrRefresh
    /\ jwks = JwksAt(0)
    /\ call[q].vres.tag = "ok" /\ call[q].seen = JwksAt(0)

\* The step in which process p assigns the set it fetched.
SwapStep(p) == call[p].pc = "write" /\ call'[p].pc \in {"rreq2", "done"}

\* C4: the cache always equals one complete key set a fetch returned, every
\* lookup sees such a set, and a swap leaves exactly the fetched set.
C4_CacheIsOneServedSet ==
  /\ [](/\ jwks \in served
        /\ \A p \in Procs : call[p].seen # {} => call[p].seen \in served)
  /\ [][\A p \in Procs : SwapStep(p) => jwks' = call[p].fetched]_vars

\* A refresh replaced the initial set: key 0 is gone from the cache.
C4_Witness ==
  /\ jwks = JwksAt(1)
  /\ ~HasKid(jwks, 0)
  /\ \E p \in Procs : call[p].nSwap = 1 /\ call[p].fetched = JwksAt(1)

\* The token names a key of the set and carries that key's signature, made
\* with the algorithm of the key's type.
ValidlySigned(tok, set) ==
  /\ IsSome(tok.kid)
  /\ HasKid(set, Unwrap(tok.kid))
  /\ tok.sig = Find(set, Unwrap(tok.kid)).key
  /\ AlgFamily(tok.alg) = KeyFamily(Find(set, Unwrap(tok.kid)))

Unexpired(tok) == IsSome(tok.payload.exp) /\ Unwrap(tok.payload.exp) >= Now

\* C5: a validly signed, unexpired token whose kid is in the cache at the
\* lookup is answered with the claims of its payload, without a fetch and
\* without a cache write.
C5_CachedKidValidates ==
  \A p \in Procs :
    (IsRequest(p) /\ call[p].pc = "done" /\ call[p].seen # {}
       /\ ValidlySigned(Tok(p), call[p].seen) /\ Unexpired(Tok(p)))
      => /\ call[p].vres = Ok(Normalize(Tok(p).payload))
         /\ call[p].nFetch = 0
         /\ call[p].nSwap = 0

\* C6: a call whose fetch is in flight holds no access to the cache and
\* waits for none; exclusive access is held only by a call that has its
\* fetched set in hand; readers never wait for readers; and whoever waits,
\* waits for a holder (never for a fetch).
C6_NoLockAcrossFetch ==
  /\ \A p \in Procs :
       call[p].pc \in {"fetch", "wreq"}
         => p \notin lock.readers /\ lock.writer # p /\ ~Waiting(lock, p)
  /\ lock.writer # 0
       => call[lock.writer].pc = "write" /\ call[lock.writer].fetched # {}
  /\ \A i \in 1..Len(lock.waitq) :
       lock.waitq[i].mode = "read"
         => (lock.writer # 0 \/ \E j \in 1..(i - 1) : lock.waitq[j].mode = "write")
  /\ \A p \in Procs : Waiting(lock, p) => (lock.writer # 0 \/ lock.readers # {})

\* Two calls hold read access together.
C6_Witness ==
  \E p, q \in Procs :
    /\ p # q
    /\ {p, q} \subseteq lock.readers

\* C7: every validate call whose first lookup missed has issued exactly one
\* fetch of its own, and a call whose first lookup did not miss none.
C7_OneFetchPerMiss ==
  \A p \in Procs :
    (IsRequest(p) /\ call[p].seen # {})
      => call[p].nFetch = (IF Missed1(p) THEN 1 ELSE 0)

\* Two calls missed the same kid; the refresh of one has put the kid into
\* the cache while the fetch of the other is still in flight.
C7_Witness ==
  \E p, q \in Procs :
    /\ p # q
    /\ Missed1(p) /\ call[p].nFetch = 1 /\ call[p].nSwap = 1
    /\ Missed1(q) /\ call[q].nFetch = 1 /\ call[q].pc = "fetch"
    /\ HasKid(jwks, Unwrap(Tok(q).kid))

\* C8: an abandoned call holds no access to the cache and waits for none,
\* the cache is a complete served set, and no waiter is left waiting for a
\* lock nobody live holds.
C8_AbandonedCallLeavesNothing ==
  /\ jwks \in served
  /\ \A p \in Procs :
       call[p].pc = "cancelled"
         => p \notin lock.readers /\ lock.writer # p /\ ~Waiting(lock, p)
  /\ \A p \in Procs :
       Waiting(lock, p)
         => \/ lock.writer # 0 /\ call[lock.writer].pc = "write"
            \/ /\ lock.readers # {}
               /\ \A r \in lock.readers : call[r].pc \in {"read1", "read2"}
  /\ Drain(lock) = lock

\* A refresh was abandoned while it waited for exclusive access, and a
\* request was validated all the same.
C8_Witness ==
  \E p, q \in Procs :
    /\ call[p].pc = "cancelled" /\ call[p].fetched # {}
    /\ call[q].pc = "done" /\ call[q].vres.tag = "ok"

\* C9: a forwarded request carries the claims authenticate returned for it,
\* in place of whatever the slot held; claims are inserted at most once, and
\* never for a rejected request.
C9_ForwardedCarriesClaims ==
  \A p \in Procs :
    IsRequest(p)
      => /\ call[p].nInsert <= 1
         /\ call[p].nInner <= 1
         /\ (call[p].nInner = 1
               => /\ call[p].ares.tag = "ok"
                  /\ call[p].nInsert = 1
                  /\ call[p].fwd
                       = Some([call[p].req EXCEPT !.ext = Some(call[p].ares.claims)]))
         /\ (call[p].ares.tag = "err" => call[p].nInsert = 0)
         /\ (call[p].ares.tag = "ok" => call[p].nInner = 1)

\* A request that arrived with a Claims value in its extensions was
\* forwarded.
C9_Witness ==
  \E p \in Procs :
    /\ call[p].req.ext = Some(StaleClaims)
    /\ call[p].nInner = 1

\* C10: for each request authenticate is invoked once, and validate once if
\* the extraction gave a token and never otherwise.
C10_OneAttemptPerRequest ==
  \A p \in Procs :
    IsRequest(p)
      => /\ call[p].nAuth = 1
         /\ call[p].nValidate = (IF call[p].req.auth.tag = "bearer" THEN 1 ELSE 0)

\* One request without a token and one whose token the validator rejected
\* are both answered.
C10_Witness ==
  \E p, q \in Procs :
    /\ call[p].pc = "done" /\ call[p].req.auth.tag = "malformed" /\ call[p].nValidate = 0
    /\ call[q].pc = "done" /\ call[q].vres.tag = "err" /\ call[q].nValidate = 1

\* C11: every request whose extraction or validation failed, a failed fetch
\* of the lazy refresh included, is answered with a response of status 401
\* whose body is the error's display string, whatever resource server
\* configuration the layer was given: the call never panics.
C11_EveryErrorAnswered401 ==
  \A p \in Procs :
    (IsRequest(p) /\ call[p].ares.tag = "err")
      => /\ call[p].pc = "done"
         /\ call[p].resp.status = 401
         /\ call[p].resp.body = call[p].ares.err

\* C12: a 401 of the middleware carries a WWW-Authenticate header exactly if
\* the layer was given a resource server configuration, and the header is
\* then the value www_authenticate_401 returns for that configuration.
C12_ChallengeIffConfigured ==
  \A p \in Procs :
    (IsRequest(p) /\ call[p].resp.status = 401)
      => /\ IsSome(call[p].resp.www) <=> IsSome(resource_server)
         /\ IsSome(resource_server)
              => www_authenticate_401(Unwrap(resource_server))
                   = Returned(Unwrap(call[p].resp.www))

\* With a default scope configured, a request without a header and a request
\* whose lazy refresh failed were both answered 401 with the challenge.
C12_Witness ==
  /\ resource_server = Some(ResourceServerConfig(UrlR, Some(ScopeTools)))
  /\ \E p, q \in Procs :
       /\ call[p].req.auth.tag = "absent" /\ call[p].resp.status = 401
       /\ IsSome(call[p].resp.www)
       /\ call[q].vres.err = ErrRefresh /\ call[q].resp.status = 401
       /\ IsSome(call[q].resp.www)

\* `Bearer resource_metadata="https://r", scope="mcp:tools"`
Example401 ==
  <<"B", "e", "a", "r", "e", "r", " ", "r", "e", "s", "o", "u", "r", "c", "e", "_", "m", "e", "t", "a", "d", "a", "t", "a", "=", "\"", "h", "t", "t", "p", "s", ":", "/", "/", "r", "\"", ",", " ", "s", "c", "o", "p", "e", "=", "\"", "m", "c", "p", ":", "t", "o", "o", "l", "s", "\"">>

\* C13: for every configuration www_authenticate_401 returns
\* `Bearer resource_metadata="<url>"`, followed by `, scope="<default_scope>"`
\* exactly if a default scope is configured; for https://r and mcp:tools it
\* returns `Bearer resource_metadata="https://r", scope="mcp:tools"`.
C13_Challenge401Format ==
  probe.fn = "www_authenticate_401"
    => LET config == Unwrap(resource_server)
           head == LitBearerMetadata \o config.resource_metadata_url \o LitQuote
       IN /\ probe.out.tag = "returned"
          /\ IsSome(config.default_scope)
               => probe.out.value
                    = head \o LitScope \o Unwrap(config.default_scope) \o LitQuote
          /\ ~IsSome(config.default_scope) => probe.out.value = head
          /\ config = ResourceServerConfig(UrlR, Some(ScopeTools))
               => probe.out.value = Example401

\* `Bearer error="insufficient_scope", scope="files:write", resource_metadata="https://r"`
Example403 ==
  <<"B", "e", "a", "r", "e", "r", " ", "e", "r", "r", "o", "r", "=", "\"", "i", "n", "s", "u", "f", "f", "i", "c", "i", "e", "n", "t", "_", "s", "c", "o", "p", "e", "\"", ",", " ", "s", "c", "o", "p", "e", "=", "\"", "f", "i", "l", "e", "s", ":", "w", "r", "i", "t", "e", "\"", ",", " ", "r", "e", "s", "o", "u", "r", "c", "e", "_", "m", "e", "t", "a", "d", "a", "t", "a", "=", "\"", "h", "t", "t", "p", "s", ":", "/", "/", "r", "\"">>

\* C14: for every configuration and required scope www_authenticate_403
\* returns `Bearer error="insufficient_scope", scope="<required>",
\* resource_metadata="<url>"`, whatever the default scope, and
\* insufficient_scope_response returns a response of status 403 with that
\* value as its WWW-Authenticate header.
C14_Challenge403Format ==
  LET config == Unwrap(resource_server)
      expected == LitBearerInsufficient \o probe.arg \o LitMetadata
                    \o config.resource_metadata_url \o LitQuote
  IN /\ probe.fn = "www_authenticate_403"
          => /\ probe.out = Returned(expected)
             /\ (config.resource_metadata_url = UrlR /\ probe.arg = ScopeWrite)
                  => probe.out.value = Example403
     /\ probe.fn = "insufficient_scope_response"
          => /\ probe.out.tag = "returned"
             /\ probe.out.value.status = 403
             /\ probe.out.value.www = Some(expected)

\* C15 as stated: the extractor's error for an absent Authorization header
\* differs from its error for a header without the "Bearer " prefix, and the
\* validator is called in neither case.
C15_DistinctExtractorErrors ==
  \A p, q \in Procs :
    (/\ IsRequest(p) /\ call[p].req.auth.tag = "absent"
     /\ IsRequest(q) /\ call[q].req.auth.tag = "malformed")
      => /\ call[p].ares.tag = "err" /\ call[q].ares.tag = "err"
         /\ call[p].ares.err # call[q].ares.err
         /\ call[p].nValidate = 0 /\ call[q].nValidate = 0

\* C15: a request whose Authorization header is absent, or present without
\* the "Bearer " prefix, is rejected by the extractor with the one error
\* "missing or malformed Authorization header", and the validator is not
\* called for it: no lookup, no fetch.
C15_OneExtractorError ==
  \A p \in Procs :
    (IsRequest(p) /\ call[p].req.auth.tag \in {"absent", "malformed"})
      => /\ call[p].ares = Err(ErrExtract)
         /\ call[p].vres = Pending
         /\ call[p].nValidate = 0
         /\ call[p].nFind = 0
         /\ call[p].nFetch = 0

\* One request came without the header and one with a malformed header; both
\* were rejected by the extractor.
C15_Witness ==
  \E p, q \in Procs :
    /\ call[p].req.auth.tag = "absent" /\ call[p].ares = Err(ErrExtract)
    /\ call[q].req.auth.tag = "malformed" /\ call[q].ares = Err(ErrExtract)
    /\ call[p].nValidate = 0 /\ call[q].nValidate = 0

\* C16 as stated: with the configured header absent the extractor fails
\* with "missing <header> header"; with the header present, whatever its
\* value, the validator receives that value unchanged.
C16_PresentValuePassed ==
  probe.fn = "ApiKeyAuth::authenticate"
    => LET header == probe.arg.header
           value == probe.arg.headers[header]
       IN /\ value = NoneOpt
               => /\ probe.out.tag = "err"
                  /\ probe.out.err = LitMissing \o header \o LitHeader
                  /\ probe.out.validated = NoneOpt
          /\ IsSome(value) => probe.out.validated = value

\* C16: with the configured header absent, or present with a value that is
\* not visible ASCII, the extractor fails with "missing <header> header" and
\* the validator is not called; otherwise the validator receives the
\* header's value exactly as it is and its result is returned.
C16_ReadableValuePassed ==
  probe.fn = "ApiKeyAuth::authenticate"
    => LET header == probe.arg.header
           value == probe.arg.headers[header]
           readable == /\ IsSome(value)
                       /\ \A i \in 1..Len(Unwrap(value)) : IsVisibleAscii(Unwrap(value)[i])
       IN /\ ~readable
               => /\ probe.out.tag = "err"
                  /\ probe.out.err = LitMissing \o header \o LitHeader
                  /\ probe.out.validated = NoneOpt
          /\ readable
               => /\ probe.out.validated = value
                  /\ probe.out.tag = KeyStoreValidate(Unwrap(value)).tag
                  /\ probe.out.claims = KeyStoreValidate(Unwrap(value)).claims

\* A key with a leading space reached the validator with its space, and was
\* refused by it.
C16_Witness ==
  /\ probe.fn = "ApiKeyAuth::authenticate"
  /\ probe.arg.headers[probe.arg.header] = Some(<<" ", "a">>)
  /\ probe.out.validated = Some(<<" ", "a">>)
  /\ probe.out.err = "invalid"

\* C17: when the fetch or the parsing of the key set fails in build, build
\* returns that error and there is no validator: nothing is cached and no
\* call ever runs; a validator that exists holds a key set a fetch returned.
C17_BuiltOnFetchedSet ==
  /\ built.state = "built" => (jwks # {} /\ jwks \in served)
  /\ built.state = "failed"
       => /\ built.err \in {ErrFetch, ErrParse}
          /\ jwks = {}
          /\ served = {}
          /\ \A p \in Procs : call[p] = Idle
  /\ built.state = "unbuilt" => (jwks = {} /\ \A p \in Procs : call[p] = Idle)

\* build failed on the parsing of the fetched body.
C17_Witness ==
  /\ built = BuildFailed(ErrParse)
  /\ jwks = {}

\* C18: when the first attempt of validate fails for another reason than a
\* missing key (header not decodable, no kid, unusable JWK, signature,
\* algorithm, exp, audience or issuer), validate returns that error as it is,
\* has looked up at most once, issues no fetch and never writes the cache.
C18_OnlyKeyMissRefreshes ==
  \A p \in Procs :
    (IsRequest(p) /\ call[p].seen # {})
      => LET first == decode_token(Tok(p), call[p].seen)
         IN (first.tag = "err" /\ first.err # ErrNoKey)
              => /\ first.err \in {ErrHeader, ErrNoKid, ErrJwk, ErrDecode}
                 /\ call[p].vres = first
                 /\ call[p].ares = first
                 /\ call[p].nFetch = 0
                 /\ call[p].nSwap = 0
                 /\ call[p].nFind <= 1
                 /\ call[p].fetched = {}

\* A token naming the key that cannot be used was refused with "invalid
\* JWK", while a refresh running beside it replaced the cache.
C18_Witness ==
  \E p, q \in Procs :
    /\ Tok(p) = BrokenKeyToken /\ call[p].vres = Err(ErrJwk) /\ call[p].nFetch = 0
    /\ call[q].op = "refresh" /\ call[q].nSwap = 1
    /\ jwks # call[p].seen

\* How far a call is.
PcRank(pc) ==
  CASE pc = "idle" -> 0
    [] pc = "read1" -> 1
    [] pc = "fetch" -> 2
    [] pc = "wreq" -> 3
    [] pc = "write" -> 4
    [] pc = "rreq2" -> 5
    [] pc = "read2" -> 6
    [] OTHER -> 7

\* C19: a validate call issues at most one fetch, writes the cache at most
\* once and looks up at most twice (twice only after its fetch), whatever
\* the token and the fetched sets; every step takes it strictly further, so
\* it goes round no loop.
C19_AtMostOneFetch ==
  /\ [](\A p \in Procs :
          IsRequest(p)
            => /\ call[p].nValidate <= 1
               /\ call[p].nFetch <= 1
               /\ call[p].nSwap <= call[p].nFetch
               /\ call[p].nFind <= 1 + call[p].nSwap)
  /\ [][\A p \in Procs :
          call'[p] # call[p] => PcRank(call'[p].pc) > PcRank(call[p].pc)]_vars

\* A request whose kid the source never serves has returned after one fetch
\* and two lookups, the second of which missed again.
C19_Witness ==
  \E p \in Procs :
    /\ Tok(p) = Forged /\ call[p].pc = "done"
    /\ call[p].nFetch = 1 /\ call[p].nFind = 2
    /\ call[p].vres = Err(ErrNoKey)

\* The key set the call's deciding lookup saw.
DecidedOn(p) == IF call[p].seen2 # {} THEN call[p].seen2 ELSE call[p].seen

\* C20: when a validate call has returned claims for a token, a call with
\* the same token whose first lookup sees the key set the other call decided
\* on returns the same claims, issues no fetch and does not write the cache.
C20_SecondCallSameClaims ==
  \A p, q \in Procs :
    (/\ p # q /\ IsRequest(p) /\ IsRequest(q)
     /\ Tok(p) = Tok(q)
     /\ call[p].vres.tag = "ok"
     /\ call[q].pc = "done"
     /\ call[q].seen = DecidedOn(p))
      => /\ call[q].vres = call[p].vres
         /\ call[q].nFetch = 0
         /\ call[q].nSwap = 0
         /\ call[q].nFind = 1

\* The first call refreshed to find the rotated-in key 2; a second call with
\* the same token found it in the cache.
C20_Witness ==
  \E p, q \in Procs :
    /\ Tok(p) = Honest(2) /\ Tok(q) = Honest(2)
    /\ call[p].vres.tag = "ok" /\ call[p].nFetch = 1
    /\ call[q].vres = call[p].vres /\ call[q].nFetch = 0

\* ---------------------------------------------------- validate, cached key
\* The token a finished validate call was given and the key its kid named.
Validated == probe.fn = "validate"
VKey == Find(jwks, Unwrap(probe.arg.kid))
VRaw == probe.arg.payload

\* The token is signed by the key its kid names, with an algorithm of that
\* key's type.
SignedByItsKey ==
  /\ VKey.usable
  /\ probe.arg.sig = VKey.key
  /\ AlgFamily(probe.arg.alg) = KeyFamily(VKey)

\* The checks of the policy, read strictly: the claim is there and matches.
ExpInTime == IsSome(VRaw.exp) /\ Unwrap(VRaw.exp) >= Now - Leeway
AudMatches ==
  IsSome(VRaw.aud) /\ Unwrap(policy.audience) \in AudValues(Unwrap(VRaw.aud))
IssMatches == VRaw.iss = policy.issuer

\* C21: a token signed by the cached key its kid names, with the algorithm
\* of that key, and meeting every check of the policy, is accepted: the
\* algorithms accepted for a verification are those of the key found.
C21_AlgorithmFromKey ==
  (/\ Validated
   /\ SignedByItsKey
   /\ ExpInTime
   /\ (IsSome(policy.audience) => AudMatches)
   /\ (IsSome(policy.issuer) => IssMatches))
    => probe.out.tag = "ok"

\* C22: a validly signed token is accepted exactly when its expiry passes,
\* its audience matches if an audience was configured, and its issuer
\* matches if an issuer was configured.
C22_PolicyDecides ==
  (Validated /\ SignedByItsKey /\ probe.arg.alg = "HS256")
    => (probe.out.tag = "ok"
          <=> /\ ExpInTime
              /\ (IsSome(policy.audience) => AudMatches)
              /\ (IsSome(policy.issuer) => IssMatches))

\* C23: the audience of the returned Claims is the one-element list of a
\* string audience, and the list itself, same elements in the same order,
\* of a list audience.
C23_AudienceNormalized ==
  (Validated /\ probe.out.tag = "ok" /\ IsSome(VRaw.aud))
    => LET a == Unwrap(VRaw.aud)
       IN /\ a.tag = "Single" => probe.out.claims.aud = Some(<<a.s>>)
          /\ a.tag = "Multiple" => probe.out.claims.aud = Some(a.v)

\* An accepted token whose audience is the list other, res.
C23_Witness ==
  /\ Validated
  /\ probe.out.tag = "ok"
  /\ VRaw.aud = Some(Multiple(<<"other", "res">>))
  /\ probe.out.claims.aud = Some(<<"other", "res">>)

\* C24 as stated: the audience of every returned Claims value is a
\* non-empty sequence of strings.
C24_AudienceNonEmpty ==
  (Validated /\ probe.out.tag = "ok")
    => /\ IsSome(probe.out.claims.aud)
       /\ Len(Unwrap(probe.out.claims.aud)) >= 1

\* C24: the audience of a returned Claims value is absent exactly when the
\* token has no aud claim; otherwise it has one string for a string
\* audience and as many strings as the list for a list audience, none for
\* the empty list; with an audience configured a present audience is
\* never empty.
C24_AudienceOptional ==
  (Validated /\ probe.out.tag = "ok")
    => /\ IsSome(probe.out.claims.aud) <=> IsSome(VRaw.aud)
       /\ IsSome(VRaw.aud) =>
            Len(Unwrap(probe.out.claims.aud))
              = IF Unwrap(VRaw.aud).tag = "Single" THEN 1
                ELSE Len(Unwrap(VRaw.aud).v)
       /\ (IsSome(policy.audience) /\ IsSome(VRaw.aud)) =>
            Len(Unwrap(probe.out.claims.aud)) >= 1

\* An accepted token without aud, whose Claims have no audience.
C24_Witness ==
  /\ Validated
  /\ probe.out.tag = "ok"
  /\ VRaw.aud = NoneOpt
  /\ probe.out.claims.aud = NoneOpt

\* The positions where a word of s starts, and where the word starting at
\* i ends.
WordStarts(s) ==
  {i \in 1..Len(s) : ~IsWhitespace(s[i]) /\ (i = 1 \/ IsWhitespace(s[i - 1]))}
WordEnd(s, i) ==
  CHOOSE j \in i..Len(s) :
    /\ \A k \in i..j : ~IsWhitespace(s[k])
    /\ j = Len(s) \/ IsWhitespace(s[j + 1])

\* C25: the scope of the returned Claims is the sequence of the maximal
\* runs of non-whitespace characters of the scope claim, in their order,
\* none of them empty, and the empty sequence when the claim is absent.
C25_ScopeSplit ==
  (Validated /\ probe.out.tag = "ok")
    => LET words == probe.out.claims.scope
       IN IF ~IsSome(VRaw.scope) THEN words = <<>>
          ELSE LET s == Unwrap(VRaw.scope)
               IN /\ Len(words) = Cardinality(WordStarts(s))
                  /\ \A n \in 1..Len(words) :
                       /\ words[n] # <<>>
                       /\ \E i \in WordStarts(s) :
                            /\ Cardinality({j \in WordStarts(s) : j < i}) = n - 1
                            /\ words[n] = SubSeq(s, i, WordEnd(s, i))

\* The scope "a b c" of an accepted token gives the words a, b, c.
C25_Witness ==
  /\ Validated
  /\ probe.out.tag = "ok"
  /\ VRaw.scope = Some(ScopeABC)
  /\ probe.out.claims.scope = <<<<"a">>, <<"b">>, <<"c">>>>

\* C26: a token without sub has the outcome the same token with a sub has,
\* and when it is accepted its Claims carry the empty string as subject.
C26_MissingSubAccepted ==
  (Validated /\ ~IsSome(VRaw.sub))
    => /\ probe.out.tag
            = decode_token([probe.arg EXCEPT !.payload.sub = Some("alice")],
                           jwks).tag
       /\ probe.out.tag = "ok" => probe.out.claims.sub = ""

\* An accepted token without sub.
C26_Witness ==
  /\ Validated
  /\ ~IsSome(VRaw.sub)
  /\ probe.out.tag = "ok"
  /\ probe.out.claims.sub = ""

\* ------------------------------------------------------- the assembled app
\* An answered GET of the discovery endpoint, in an application that merged
\* the metadata router.
Discovery(p) ==
  /\ IsRequest(p)
  /\ call[p].pc = "done"
  /\ call[p].req.method = "GET"
  /\ call[p].req.uri = WellKnownPath
  /\ IsSome(app.metadata)

\* C27: a GET of the discovery endpoint that carries no credential is
\* answered 200 with the metadata document, however the application merged
\* the metadata router, the assembly of the crate documentation (merge,
\* then the layer) included.
C27_DiscoveryNeedsNoCredential ==
  \A p \in Procs :
    (Discovery(p) /\ call[p].req.auth.tag = "absent")
      => /\ call[p].resp.status = 200
         /\ call[p].resp.body = ToJson(Unwrap(app.metadata))

\* C28: every metadata document the discovery endpoint serves lists at
\* least one authorization server.
C28_ServedDocumentNamesAServer ==
  \A p \in Procs :
    (Discovery(p) /\ call[p].resp.status = 200)
      => Len(call[p].resp.body["authorization_servers"]) >= 1

\* C29: the request handed to the inner service has the method, the URI,
\* the headers and the body of the inbound request, and the claims the
\* authenticator returned in the Claims slot of its extensions.
C29_ForwardedAsReceived ==
  \A p \in Procs :
    (IsRequest(p) /\ IsSome(call[p].fwd))
      => LET f == Unwrap(call[p].fwd)
         IN /\ f.method = call[p].req.method
            /\ f.uri = call[p].req.uri
            /\ f.auth = call[p].req.auth
            /\ f.body = call[p].req.body
            /\ call[p].ares.tag = "ok"
            /\ f.ext = Some(call[p].ares.claims)

\* An authenticated POST with a body was handed to the MCP service.
C29_Witness ==
  \E p \in Procs :
    /\ IsRequest(p)
    /\ call[p].req.method = "POST" /\ call[p].req.body = "rpc"
    /\ call[p].req.auth.tag = "bearer"
    /\ IsSome(call[p].fwd)
    /\ Unwrap(call[p].fwd).body = "rpc"
    /\ call[p].resp.status = 200

\* ------------------------------------------------- filesystem: validate_path
\* Where an operation on a canonical path lands: a symlink in last place is
\* followed, also when its target does not exist yet.
RECURSIVE Location(_)
Location(path) ==
  IF path \in DOMAIN Fs /\ Fs[path].kind = "link"
    THEN LET t == Fs[path].target
             dir == Canonicalize(SubSeq(t, 1, Len(t) - 1))
         IN IF dir.ok THEN Location(Append(dir.path, t[Len(t)])) ELSE path
    ELSE path

Inside(path, allowed_dirs) ==
  \E i \in 1..Len(allowed_dirs) : StartsWith(path, allowed_dirs[i])

\* C30: validate_path returns Ok only with a path whose fully resolved
\* location is inside an allowed directory; it returns an error for a path
\* with a NUL byte, for a path that resolves outside every allowed
\* directory, and for every path when no directory is allowed.
C30_OkOnlyInsideAllowed ==
  probe.fn = "validate_path"
    => LET path == probe.arg.path
           allowed_dirs == probe.arg.allowed_dirs
       IN /\ probe.out.tag = "ok" => Inside(Location(probe.out.path), allowed_dirs)
          /\ (\E i \in 1..Len(path) : path[i] = NulName) => probe.out.tag = "err"
          /\ allowed_dirs = <<>> => probe.out.tag = "err"
          /\ (/\ \A i \in 1..Len(path) : path[i] # NulName
              /\ Canonicalize(path).ok
              /\ ~Inside(Canonicalize(path).path, allowed_dirs))
               => probe.out.tag = "err"

StepsTaken == IF probe.fn = "tool" THEN probe.out ELSE probe.out.steps
AccessSteps == {i \in 1..Len(StepsTaken) : StepsTaken[i].op # "validate_path"}
SomeValidationFailed ==
  \E i \in 1..Len(StepsTaken) :
    StepsTaken[i].op = "validate_path" /\ ~StepsTaken[i].ok

\* The path p is what an earlier step than i got back from a successful
\* validate_path.
ValidatedBefore(i, p) ==
  \E j \in 1..(i - 1) :
    /\ StepsTaken[j].op = "validate_path" /\ StepsTaken[j].ok
    /\ validate_path(StepsTaken[j].path, probe.arg.allowed_dirs).path = p

EveryAccessValidated ==
  \A i \in AccessSteps :
    /\ ValidatedBefore(i, StepsTaken[i].path)
    /\ StepsTaken[i].op = "rename" => ValidatedBefore(i, StepsTaken[i].to)

C37_MatchesInsideAllowed ==
  probe.fn = "search_files"
    => \A m \in probe.out.matches :
         Inside(IF Canonicalize(m).ok THEN Canonicalize(m).path ELSE Location(m),
                probe.arg.allowed_dirs)

\* Position of the first occurrence of t in s, counted from 0.
FirstOccurrence(s, t) ==
  CHOOSE i \in 0..(Len(s) - Len(t)) :
    /\ SubSeq(s, i + 1, i + Len(t)) = t
    /\ \A j \in 0..(i - 1) : SubSeq(s, j + 1, j + Len(t)) # t

\* The content after the first k edits, each replacing the first occurrence
\* of its old_text in what the edits before it produced.
RECURSIVE AfterEdits(_, _, _)
AfterEdits(content, edits, k) ==
  IF k = 0 THEN content
  ELSE LET s == AfterEdits(content, edits, k - 1)
           i == FirstOccurrence(s, edits[k].old_text)
       IN SubSeq(s, 1, i) \o edits[k].new_text
            \o SubSeq(s, i + Len(edits[k].old_text) + 1, Len(s))

\* C38: edit_file applies its edits in order, each to the first occurrence of
\* its old_text in the content the edits before it produced; it writes that
\* content when every old_text is found and dry_run is not true, and
\* otherwise writes nothing.
C38_EditsInOrder ==
  (/\ probe.fn = "edit_file"
   /\ probe.arg.path = <<"a", "f">>)
    => LET edits == probe.arg.edits
           original == probe.arg.original
           allFound == \A k \in 1..Len(edits) :
                         Contains(AfterEdits(original, edits, k - 1), edits[k].old_text)
           dry == probe.arg.dry_run = Some(TRUE)
           writes == {i \in AccessSteps : StepsTaken[i].op = "write"}
       IN /\ (allFound /\ ~dry)
               => /\ probe.out.written = Some(AfterEdits(original, edits, Len(edits)))
                  /\ writes # {}
                  /\ probe.out.tag = "ok"
          /\ (~allFound \/ dry)
               => /\ probe.out.written = NoneOpt
                  /\ writes = {}
          /\ ~allFound => probe.out.tag = "err"
          /\ (allFound /\ dry) => probe.out.tag = "ok"

C38_Witness ==
  /\ probe.fn = "edit_file" /\ probe.arg.path = <<"a", "f">>
  /\ probe.arg.original = <<"a", "b", "a">>
  /\ probe.arg.edits = <<[old_text |-> <<"a">>, new_text |-> <<"b">>],
                         [old_text |-> <<"b">>, new_text |-> <<>>]>>
  /\ probe.arg.dry_run = NoneOpt
  /\ probe.out.written = Some(<<"b", "a">>)

\* ---------------------------------------------------------------- time server
\* A non-negative integer in decimal: digits, with or without a plus sign
\* in front.
IsNumber(s) ==
  LET d == IF s # <<>> /\ s[1] = "+" THEN SubSeq(s, 2, Len(s)) ELSE s
  IN d # <<>> /\ \A i \in 1..Len(d) : d[i] \in {"0", "2", "6"}

\* The number such a string denotes, read from the left.
RECURSIVE NumberFrom(_, _)
NumberFrom(s, n) ==
  IF s = <<>> THEN n
  ELSE IF Head(s) = "+" THEN NumberFrom(Tail(s), n)
  ELSE NumberFrom(Tail(s), 10 * n + (CASE Head(s) = "0" -> 0
                                       [] Head(s) = "2" -> 2
                                       [] Head(s) = "6" -> 6))

\* Two numbers separated by one colon, an hour of 0..23 and a minute of 0..59.
IsTimeOfDay(s) ==
  \E i \in 1..Len(s) :
    /\ s[i] = ":"
    /\ \A j \in 1..Len(s) : s[j] = ":" => j = i
    /\ IsNumber(SubSeq(s, 1, i - 1))
    /\ NumberFrom(SubSeq(s, 1, i - 1), 0) \in 0..23
    /\ IsNumber(SubSeq(s, i + 1, Len(s)))
    /\ NumberFrom(SubSeq(s, i + 1, Len(s)), 0) \in 0..59

\* C33: convert_time returns an error and no result for every time string
\* that is not two colon-separated non-negative integers with an hour of
\* 0..23 and a minute of 0..59, and for every source or target zone name that
\* is not a zone; the error for a zone name contains "Invalid timezone".
C33_InvalidInputRejected ==
  probe.fn = "convert_time"
    => LET a == probe.arg
           badZone == {a.source_timezone, a.target_timezone}
                        \ {"UTC", "Europe/Warsaw"} # {}
       IN /\ (badZone \/ ~IsTimeOfDay(a.time))
               => probe.out.tag = "err" /\ probe.out.result = <<>>
          /\ badZone => /\ probe.out.err # <<>>
                        /\ probe.out.err[1] = "Invalid timezone: "

C33_Witness ==
  /\ probe.fn = "convert_time"
  /\ probe.arg.source_timezone = "UTC" /\ probe.arg.target_timezone = "Europe/Warsaw"
  /\ probe.arg.time = <<"2", "0", ":", "6", "0">>
  /\ probe.out.tag = "err"
  /\ probe.out.err = <<"Invalid time. Hour must be 0-23, minute must be 0-59">>

\* ------------------------------------------------------------ JWKS refreshes
\* C35: the cache never goes back: a step never replaces the set the source
\* served at one time by a set it served earlier.
C35_CacheNeverRegresses ==
  [][\A v, w \in 0..MaxRotations :
       (jwks = JwksAt(w) /\ jwks' = JwksAt(v)) => v >= w]_vars

\* Call p has started and has neither returned nor been abandoned.
Running(p) == call[p].pc \notin {"idle", "done", "cancelled"}

\* C34: no deadlock is reachable among concurrent validate and refresh_jwks
\* calls: a call that waits for exclusive access holds no read access, in
\* every state with a running call some call can take a step, and every
\* call that is not abandoned eventually returns.
C34_EveryCallReturns ==
  /\ [](\A p \in Procs :
          (call[p].pc \in {"fetch", "wreq", "write"}) => p \notin lock.readers)
  /\ []((\E p \in Procs : Running(p)) => \E p \in Procs : ENABLED Step(p))
  /\ \A p \in Procs : Running(p) ~> ~Running(p)

C34_Witness ==
  \E p, q \in Procs :
    /\ call[p].op = "request" /\ call[p].pc = "write" /\ Waiting(lock, p)
    /\ call[q].op = "request" /\ call[q].pc = "read1" /\ q \in lock.readers

\* ------------------------------------------------- AuthService as a Service
\* C36: the instance AuthService::call moves into its future, and calls, is
\* the one poll_ready last reported ready; the clone stays behind in the
\* AuthService; no instance is called that was not polled ready.
C36_PolledInstanceIsCalled ==
  /\ \A f \in service.futures : f.polled = Some(f.inner)
  /\ \A c \in service.calls : c.polled = Some(c.inner) /\ c.ready
  /\ service.inner = service.clones
  /\ IsSome(service.polled) => service.polled = Some(service.inner)

C36_Witness ==
  /\ service.inner = 2
  /\ [inner |-> 1, polled |-> Some(1), ready |-> TRUE] \in service.calls
  /\ [inner |-> 0, polled |-> Some(0)] \in service.futures

====
